---- MODULE Spec2Model ----
(***************************************************************************)
(* Model of the cache and fault-isolation layer of smartTrain:            *)
(*   - LRUCache and MultiLevelCache   (backend/app/cache/lru_cache.py)     *)
(*   - CircuitBreakerManager and the circuit_breaker decorator             *)
(*                                    (backend/app/circuit_breaker_manager.py) *)
(***************************************************************************)
EXTENDS Integers, Sequences, FiniteSets, TLC

(***************************************************************************)
(* Bounds of the model.                                                    *)
(***************************************************************************)
MaxCap == 2          \* largest LRUCache.max_size explored
MaxTime == 3         \* the clock time.time() runs over 0..MaxTime
MaxGets == 2         \* hits + misses is kept at or below this many
MaxTtlArg == 2       \* the longest ttl argument of set
MaxGetsConc == 1     \* the most get calls counted in hits and misses by the concurrent specification
MaxTimeConc == 2     \* the clock of the concurrent specification runs over 0..MaxTimeConc
MaxTimeML == 2       \* the clock of the MultiLevelCache specification runs over 0..MaxTimeML
MaxGetsLRU == 1      \* hits + misses is kept at or below this many in SpecLRU
MaxGetsTouch == 2    \* hits + misses is kept at or below this many in SpecTouch
MaxPoiGets == 2      \* hits + misses of the L1 of the POI cache is kept at or below this many
MaxTimeLRU == 2      \* the clock of SpecLRU runs over 0..MaxTimeLRU
MaxRegCalls == 3     \* the threads of SpecRegistry start this many calls on the registry in all
MaxMtOps == 3        \* the threads of SpecMulti start this many MultiLevelCache calls in all
RecursionLimit == 3  \* sys.getrecursionlimit(), counted in nested WeatherCache calls
MaxWxGets == 2       \* a WeatherCache.get starts while hits + misses of its L1 is below this
MaxTimeWx == 2       \* the clock of SpecWeather runs over 0..MaxTimeWx

Keys == {"k1", "k2", "k3"}
TwoKeys == {"k1", "k2"}
Vals == {"v1", "v2"}
NoneVal == "None"    \* Python's None
NoTtl == 0 - 1       \* ttl=None (a TTL is an int)
PyTrue == "True"
PyFalse == "False"
DefaultTtl == 1      \* the default TTL of a cache constructed with one
DefaultTtls == {NoTtl, DefaultTtl}     \* LRUCache(ttl=...) as constructed
TtlArgs == {NoTtl, 0, MaxTtlArg}       \* set(..., ttl=...): none, zero, longer than the default

VARIABLES
    max_size,      \* LRUCache.max_size
    ttl,           \* LRUCache.ttl, the default TTL (NoneVal when not configured)
    cache,         \* LRUCache.cache: OrderedDict as a sequence of [k, v], oldest first
    timestamps,    \* LRUCache.timestamps: key -> time
    hits, misses,  \* LRUCache.hits, LRUCache.misses
    now,           \* time.time()
    ret,           \* the last call: [op, key, val, had, exc]
    hist,          \* history: keys in order of their last touch, and the last get that hit
    lastSet,       \* history: the last set(key, v, ttl=T) not yet followed by a set/delete of key
    lock,          \* LRUCache.lock: the thread that holds it, or Free
    pc,            \* per thread: where it is inside an LRUCache method
    call,          \* per thread: the call it is running, [op, key, value, T]
    l2_cache,      \* MultiLevelCache.l2_cache: NoneVal, or "store" once set_l2_cache has run
    l3_fetcher,    \* MultiLevelCache.l3_fetcher: NoneVal, or "fetcher" once set_l3_fetcher has run
    l2,            \* the contents of the L2 store: key -> value, NoneVal when absent
    mlret,         \* history: the last MultiLevelCache call and what it did
    breakers,      \* CircuitBreakerManager._breakers: name -> breaker
    th,            \* per thread: its call of a breaker-wrapped function, [pc, name, res, probe]
    streak,        \* history: per name, the failing calls in a row made one at a time
    probeFailedAt, \* history: per name, the time of the last failed probe (NoTtl: none yet)
    retry,         \* a call of a function decorated with @retry:
                   \* [pc, k, cfg, attempt, invoked, res, slept]
    llmkeys,       \* the LLM cache keys derived so far: a sequence of [req, key]
    redis_up,      \* RedisManager.is_connected: the Redis server answers
    mlop,          \* history: the last MultiLevelCache call made over a store that can
                   \* fail, [op, key, value, val, exc, keys, fetch, count, old1, pre]
    adm,           \* the reset_breaker call that is returning: [name, exc]
    amap,          \* whether Settings defines every field the code reads (full), and the
                   \* AmapService or POICache call that is returning
    wx,            \* the WeatherCache call under way: [pc, op, keys, value, val, exc]
    mt,            \* the MultiLevelCache calls of concurrent threads: run[t] is the call
                   \* of thread t, [pc, next, op, key, value, val, exc, absent, clean];
                   \* history: deleted, fetches, ops
    reg            \* the breaker registry with the identity of its breakers: byName is
                   \* CircuitBreakerManager._breakers as name -> index into inst (0: no
                   \* entry), inst the breakers ever created, run[t] the call of thread
                   \* t, [pc, op, name, made, held, res]; history: calls, stale

lruVars == <<max_size, ttl, cache, timestamps, hits, misses>>
histVars == <<ret, hist, lastSet>>
concVars == <<lock, pc, call>>
mlVars == <<l2_cache, l3_fetcher, l2, mlret>>
cbVars == <<breakers, th, streak, probeFailedAt>>
redisVars == <<redis_up, mlop>>
lateVars == <<wx, mt, reg>>
auxVars == <<retry, llmkeys, redisVars, adm, amap, lateVars>>
\* what the single-caller specifications of the LRUCache leave alone
notLRU == <<concVars, mlVars, cbVars, auxVars>>

(***************************************************************************)
(* Helpers on the OrderedDict representation.                              *)
(***************************************************************************)
CacheKeys(c) == {c[i].k : i \in DOMAIN c}

KeySeq(c) == [i \in DOMAIN c |-> c[i].k]

ValueOf(c, key) == (CHOOSE i \in DOMAIN c : c[i].k = key)

Lookup(c, key) == c[ValueOf(c, key)].v

RECURSIVE Without(_, _)
Without(c, ks) ==
    IF c = <<>> THEN <<>>
    ELSE IF Head(c).k \in ks THEN Without(Tail(c), ks)
    ELSE <<Head(c)>> \o Without(Tail(c), ks)

DropTs(ts, ks) == [x \in (DOMAIN ts) \ ks |-> ts[x]]

PutTs(ts, key, t) == [x \in (DOMAIN ts) \cup {key} |-> IF x = key THEN t ELSE ts[x]]

(***************************************************************************)
(* LRUCache, lines 24-125.  A cache state is a record                      *)
(*   [cache, timestamps, hits, misses]; every operation returns the new    *)
(*   state with the returned value (val) and the exception raised (exc).   *)
(***************************************************************************)
NoExc == "none"

\* _is_expired(key) evaluated at clock t
IsExpired(ts, key, t) ==
    IF ttl = NoTtl THEN FALSE
    ELSE IF key \notin DOMAIN ts THEN FALSE
    ELSE t - ts[key] > ttl

\* _evict_expired() at clock t
EvictExpired(s, t) ==
    LET expired_keys == {k \in CacheKeys(s.cache) : IsExpired(s.timestamps, k, t)}
    IN [s EXCEPT !.cache = Without(s.cache, expired_keys),
                 !.timestamps = DropTs(s.timestamps, expired_keys)]

\* the comparison of _evict_lru, line 43
EvictLruBadCmp(n) == n > max_size
AtCapacity(n) == n >= max_size

\* _evict_lru(): next(iter(self.cache)) raises StopIteration on an empty dict
EvictLru(s) ==
    IF AtCapacity(Len(s.cache))
    THEN IF s.cache = <<>>
         THEN [st |-> s, exc |-> "StopIteration"]
         ELSE [st |-> [s EXCEPT !.cache = Tail(s.cache),
                                !.timestamps = DropTs(s.timestamps, {Head(s.cache).k})],
               exc |-> NoExc]
    ELSE [st |-> s, exc |-> NoExc]

\* the timestamp that set(key, value, ttl=T) stores at clock t, lines 79-82
SetStampNoOffset(t, T) == t
SetStamp(t, T) == IF T = NoTtl THEN t ELSE t - ttl + T

\* set, lines 72-73: _evict_expired() then _evict_lru()
SetEvictPart(s, t) == EvictLru(EvictExpired(s, t))

\* set, lines 75-84: the insertion at clock t into the state s2 left by lines 72-73
SetInsertPart(s2, key, value, T, t) ==
    LET c3 == Without(s2.cache, {key}) \o <<[k |-> key, v |-> value]>>
    IN  IF T # NoTtl /\ ttl = NoTtl
        THEN \* line 82: time.time() - None raises TypeError, after line 79 has run
             [st |-> [s2 EXCEPT !.cache = c3,
                                !.timestamps = PutTs(s2.timestamps, key, t)],
              val |-> NoneVal, exc |-> "TypeError"]
        ELSE [st |-> [s2 EXCEPT !.cache = c3,
                                !.timestamps = PutTs(s2.timestamps, key, SetStamp(t, T))],
              val |-> PyTrue, exc |-> NoExc]

\* set(key, value, ttl=T) at clock t, lines 69-84
LRUSet(s, key, value, T, t) ==
    LET e == SetEvictPart(s, t)
    IN  IF e.exc # NoExc
        THEN [st |-> e.st, val |-> NoneVal, exc |-> e.exc]
        ELSE SetInsertPart(e.st, key, value, T, t)

\* a get whose hit leaves the key where it is (without lines 64-65)
LRUGetNoTouch(s, key, t1, t2) ==
    LET s1 == EvictExpired(s, t1)
    IN  IF key \notin CacheKeys(s1.cache)
        THEN [st |-> [s1 EXCEPT !.misses = @ + 1], val |-> NoneVal, exc |-> NoExc]
        ELSE IF IsExpired(s1.timestamps, key, t2)
        THEN [st |-> [s1 EXCEPT !.cache = Without(s1.cache, {key}),
                                !.timestamps = DropTs(s1.timestamps, {key}),
                                !.misses = @ + 1],
              val |-> NoneVal, exc |-> NoExc]
        ELSE [st |-> [s1 EXCEPT !.hits = @ + 1],
              val |-> Lookup(s1.cache, key), exc |-> NoExc]

\* get(key), lines 49-67: the clock is read at t1 (line 52) and again at t2 (line 58)
LRUGet(s, key, t1, t2) ==
    LET s1 == EvictExpired(s, t1)
    IN  IF key \notin CacheKeys(s1.cache)
        THEN [st |-> [s1 EXCEPT !.misses = @ + 1], val |-> NoneVal, exc |-> NoExc]
        ELSE IF IsExpired(s1.timestamps, key, t2)
        THEN [st |-> [s1 EXCEPT !.cache = Without(s1.cache, {key}),
                                !.timestamps = DropTs(s1.timestamps, {key}),
                                !.misses = @ + 1],
              val |-> NoneVal, exc |-> NoExc]
        ELSE LET value == Lookup(s1.cache, key)
             IN [st |-> [s1 EXCEPT !.cache = Without(s1.cache, {key})
                                               \o <<[k |-> key, v |-> value]>>,
                                   !.hits = @ + 1],
                 val |-> value, exc |-> NoExc]

\* a delete that reports True whether or not it found the key
LRUDeleteAlwaysTrue(s, key) ==
    [st |-> [s EXCEPT !.cache = Without(s.cache, {key}),
                      !.timestamps = DropTs(s.timestamps, {key})],
     val |-> PyTrue, exc |-> NoExc]

\* delete(key), lines 86-93
LRUDelete(s, key) ==
    IF key \in CacheKeys(s.cache)
    THEN [st |-> [s EXCEPT !.cache = Without(s.cache, {key}),
                           !.timestamps = DropTs(s.timestamps, {key})],
          val |-> PyTrue, exc |-> NoExc]
    ELSE [st |-> s, val |-> PyFalse, exc |-> NoExc]

\* a clear that leaves the counters as they are (without lines 100-101)
LRUClearKeepsCounters(s) ==
    [st |-> [s EXCEPT !.cache = <<>>,
                      !.timestamps = DropTs(s.timestamps, DOMAIN s.timestamps)],
     val |-> NoneVal, exc |-> NoExc]

\* clear(), lines 95-101
LRUClear(s) ==
    [st |-> [cache |-> <<>>, timestamps |-> DropTs(s.timestamps, DOMAIN s.timestamps),
             hits |-> 0, misses |-> 0],
     val |-> NoneVal, exc |-> NoExc]

\* hit_rate of get_stats, lines 106-107 and 113, in hundredths of a percent:
\* round(hits / total * 100, 2), halves to the even neighbour
HitRate(h, total) ==
    IF total > 0
    THEN LET n == h * 10000
             q == n \div total
             r2 == 2 * (n % total)
         IN  IF r2 > total \/ (r2 = total /\ q % 2 = 1) THEN q + 1 ELSE q
    ELSE 0

\* get_stats(), lines 103-115
GetStats(s) ==
    [size |-> Len(s.cache), max_size |-> max_size, hits |-> s.hits, misses |-> s.misses,
     hit_rate |-> HitRate(s.hits, s.hits + s.misses), ttl |-> ttl]

L1 == [cache |-> cache, timestamps |-> timestamps, hits |-> hits, misses |-> misses]

SetL1(s) ==
    /\ cache' = s.cache
    /\ timestamps' = s.timestamps
    /\ hits' = s.hits
    /\ misses' = s.misses
    /\ UNCHANGED <<max_size, ttl>>

(***************************************************************************)
(* History variables of the LRUCache specification.                        *)
(***************************************************************************)
NoSet == [key |-> NoneVal, val |-> NoneVal, T |-> 0, at |-> 0]
NoGot == [key |-> NoneVal, others |-> {}, fresh |-> {}]
NoHist == [pure |-> FALSE, order |-> <<>>, got |-> NoGot, gone |-> {}]

RECURSIVE SeqWithout(_, _)
SeqWithout(q, x) ==
    IF q = <<>> THEN <<>>
    ELSE IF Head(q) = x THEN SeqWithout(Tail(q), x)
    ELSE <<Head(q)>> \o SeqWithout(Tail(q), x)

Touch(q, key) == SeqWithout(q, key) \o <<key>>

Ret(op, key, r, had) == [op |-> op, key |-> key, val |-> r.val, had |-> had, exc |-> r.exc]

InitLRU ==
    /\ max_size \in 0..MaxCap
    /\ ttl \in DefaultTtls
    /\ cache = <<>>
    /\ timestamps = [x \in {} |-> 0]
    /\ hits = 0
    /\ misses = 0
    /\ now = 0

(***************************************************************************)
(* The calls on one LRUCache.  Each method body runs under self.lock       *)
(* (lines 51, 71, 88, 97), so a call is one step.  The *Call operators     *)
(* change the cache; the actions of each specification add the history     *)
(* that its claims read.                                                   *)
(***************************************************************************)
SetCall(key, value, T) ==
    /\ SetL1(LRUSet(L1, key, value, T, now).st)
    /\ UNCHANGED now

GetCall(key, d) ==
    /\ hits + misses < MaxGets
    /\ now + d <= MaxTime
    /\ SetL1(LRUGet(L1, key, now, now + d).st)
    /\ now' = now + d

DeleteCall(key) ==
    /\ SetL1(LRUDelete(L1, key).st)
    /\ UNCHANGED now

ClearCall ==
    /\ SetL1(LRUClear(L1).st)
    /\ UNCHANGED now

\* time passes between calls
TickCall ==
    /\ now < MaxTime
    /\ now' = now + 1
    /\ UNCHANGED lruVars

Had(key) == key \in CacheKeys(cache)

NoRet == [op |-> "none", key |-> NoneVal, val |-> NoneVal, had |-> FALSE, exc |-> NoExc]

(***************************************************************************)
(* Spec: the calls of one LRUCache, with the result of the last call.      *)
(***************************************************************************)
Set(key, value, T) ==
    /\ SetCall(key, value, T)
    /\ ret' = Ret("set", key, LRUSet(L1, key, value, T, now), Had(key))
    /\ UNCHANGED <<hist, lastSet, notLRU>>

Get(key, d) ==
    /\ GetCall(key, d)
    /\ ret' = Ret("get", key, LRUGet(L1, key, now, now + d), Had(key))
    /\ UNCHANGED <<hist, lastSet, notLRU>>

Delete(key) ==
    /\ DeleteCall(key)
    /\ ret' = Ret("delete", key, LRUDelete(L1, key), Had(key))
    /\ UNCHANGED <<hist, lastSet, notLRU>>

Clear ==
    /\ ClearCall
    /\ ret' = Ret("clear", NoneVal, LRUClear(L1), FALSE)
    /\ UNCHANGED <<hist, lastSet, notLRU>>

Tick ==
    /\ TickCall
    /\ ret' = NoRet
    /\ UNCHANGED <<hist, lastSet, notLRU>>

Threads == {"t1", "t2"}
Free == "free"
NoCall == [op |-> "none", key |-> NoneVal, value |-> NoneVal, T |-> NoTtl]

InitConc ==
    /\ lock = Free
    /\ pc = [t \in Threads |-> "idle"]
    /\ call = [t \in Threads |-> NoCall]

NoMLRet ==
    [op |-> "none", key |-> NoneVal, val |-> NoneVal, exc |-> NoExc,
     in1 |-> FALSE, v2 |-> NoneVal, w2 |-> 0, f3 |-> 0]

\* MultiLevelCache.__init__, lines 131-134, with an empty L2 store
InitML ==
    /\ l2_cache = NoneVal
    /\ l3_fetcher = NoneVal
    /\ l2 = [k \in Keys |-> NoneVal]
    /\ mlret = NoMLRet

Names == {"amap_poi", "test_breaker"}
IdleTh == [pc |-> "idle", name |-> NoneVal, res |-> NoneVal, probe |-> FALSE]

\* CircuitBreakerManager.__init__, lines 12-14: no breaker yet; no call under way
InitCB ==
    /\ breakers = [n \in {} |-> 0]
    /\ th = [t \in Threads |-> IdleTh]
    /\ streak = [n \in Names |-> 0]
    /\ probeFailedAt = [n \in Names |-> NoTtl]

NoFetch == [k \in TwoKeys |-> NoneVal]
NoMLOp ==
    [op |-> "none", key |-> NoneVal, value |-> NoneVal, val |-> NoneVal, exc |-> NoExc,
     keys |-> <<>>, fetch |-> NoFetch, count |-> 0, old1 |-> NoneVal, pre |-> {}]

\* RedisManager._initialize_pool, lines 28-55: connected
InitRedis ==
    /\ redis_up = TRUE
    /\ mlop = NoMLOp

NoAdm == [name |-> NoneVal, exc |-> NoExc]

\* no WeatherCache call is under way; keys are the keys of the nested calls, the
\* innermost last
NoWx == [pc |-> "idle", op |-> "none", keys |-> <<>>, value |-> NoneVal, val |-> NoneVal,
         exc |-> NoExc]

\* no thread is inside a MultiLevelCache call
NoRun == [pc |-> "idle", next |-> "idle", op |-> "none", key |-> NoneVal, value |-> NoneVal,
          val |-> NoneVal, exc |-> NoExc, absent |-> FALSE, clean |-> FALSE]

NoMt == [run |-> [t \in Threads |-> NoRun], deleted |-> {}, fetches |-> 0, ops |-> 0]

\* no thread is inside a call on the registry
NoRg == [pc |-> "idle", op |-> "none", name |-> NoneVal, made |-> 0, held |-> 0,
         res |-> NoneVal]

\* CircuitBreakerManager.__init__, lines 12-14
NoReg == [byName |-> [n \in Names |-> 0], inst |-> <<>>, run |-> [t \in Threads |-> NoRg],
          calls |-> 0, stale |-> FALSE]

\* config.py, lines 8-51: Settings as the repository defines it has none of the fields
\* amap_circuit_*, amap_retry_*, cache_poi_l1_* and cache_weather_l1_*
NoAmap ==
    [full |-> FALSE, op |-> "none", key |-> NoneVal, succeed_at |-> 0, found |-> NoneVal,
     val |-> NoneVal, exc |-> NoExc, upstream |-> 0]

NoRes == [kind |-> "none", of |-> 0]
IdleRetry ==
    [pc |-> "idle", k |-> 0, cfg |-> 0, attempt |-> 0, invoked |-> 0, res |-> NoRes,
     slept |-> <<>>]

\* no decorated function has been called yet
InitRetry == retry = IdleRetry

Init ==
    /\ InitLRU
    /\ ret = NoRet
    /\ hist = [pure |-> TRUE, order |-> <<>>, got |-> NoGot, gone |-> {}]
    /\ lastSet = NoSet
    /\ InitConc
    /\ InitML
    /\ InitCB
    /\ InitRetry
    /\ llmkeys = <<>>
    /\ InitRedis
    /\ adm = NoAdm
    /\ amap = NoAmap
    /\ wx = NoWx
    /\ mt = NoMt
    /\ reg = NoReg

Next ==
    \/ \E key \in Keys, value \in Vals, T \in TtlArgs : Set(key, value, T)
    \/ \E key \in Keys, d \in 0..1 : Get(key, d)
    \/ \E key \in Keys : Delete(key)
    \/ Clear
    \/ Tick

vars == <<lruVars, now, histVars, concVars, mlVars, cbVars, auxVars>>

Spec == Init /\ [][Next]_vars

(***************************************************************************)
(* SpecSets: a cache that receives set calls only (C1).  hist.order lists  *)
(* the keys set so far, least recently set first, for as long as every     *)
(* set has returned normally and no entry has expired.                     *)
(***************************************************************************)
SetOnly(key, value, T) ==
    LET r == LRUSet(L1, key, value, T, now)
        noExpiry == CacheKeys(EvictExpired(L1, now).cache) = CacheKeys(cache)
    IN  /\ SetCall(key, value, T)
        /\ hist' = IF hist.pure /\ r.exc = NoExc /\ noExpiry
                   THEN [hist EXCEPT !.order = Touch(@, key)]
                   ELSE NoHist
        /\ UNCHANGED <<ret, lastSet, notLRU>>

TickSets ==
    /\ TickCall
    /\ UNCHANGED <<histVars, notLRU>>

NextSets ==
    \/ \E key \in Keys, value \in Vals, T \in TtlArgs : SetOnly(key, value, T)
    \/ TickSets

SpecSets == Init /\ [][NextSets]_vars

(***************************************************************************)
(* SpecConc: threads calling one LRUCache concurrently.  `with self.lock`  *)
(* (lines 51, 71, 88, 97) is entered by Begin and left by the last step    *)
(* of the body; set runs lines 72-73 and lines 75-84 as two steps.         *)
(***************************************************************************)
Calls ==
    [op : {"set"}, key : Keys, value : Vals, T : {NoTtl}]
    \cup [op : {"get", "delete"}, key : Keys, value : {NoneVal}, T : {NoTtl}]
    \cup [op : {"clear"}, key : {NoneVal}, value : {NoneVal}, T : {NoTtl}]

\* Lock.acquire(): blocks until the lock is free
NoLock(t) == TRUE
CanAcquire(t) == lock = Free

Begin(t, c) ==
    /\ pc[t] = "idle"
    /\ CanAcquire(t)
    /\ lock' = t
    /\ pc' = [pc EXCEPT ![t] = IF c.op = "set" THEN "evict" ELSE "body"]
    /\ call' = [call EXCEPT ![t] = c]
    /\ UNCHANGED <<lruVars, now, histVars, mlVars, cbVars, auxVars>>

Release(t) ==
    /\ lock' = IF lock = t THEN Free ELSE lock
    /\ pc' = [pc EXCEPT ![t] = "idle"]
    /\ call' = [call EXCEPT ![t] = NoCall]

SetEvict(t) ==
    LET e == SetEvictPart(L1, now)
    IN  /\ pc[t] = "evict"
        /\ SetL1(e.st)
        /\ IF e.exc # NoExc
           THEN Release(t)
           ELSE /\ pc' = [pc EXCEPT ![t] = "insert"]
                /\ UNCHANGED <<lock, call>>
        /\ UNCHANGED <<now, histVars, mlVars, cbVars, auxVars>>

SetInsert(t) ==
    /\ pc[t] = "insert"
    /\ SetL1(SetInsertPart(L1, call[t].key, call[t].value, call[t].T, now).st)
    /\ Release(t)
    /\ UNCHANGED <<now, histVars, mlVars, cbVars, auxVars>>

GetBody(t, d) ==
    /\ pc[t] = "body"
    /\ call[t].op = "get"
    /\ hits + misses < MaxGetsConc
    /\ GetCall(call[t].key, d)
    /\ Release(t)
    /\ UNCHANGED <<histVars, mlVars, cbVars, auxVars>>

DeleteBody(t) ==
    /\ pc[t] = "body"
    /\ call[t].op = "delete"
    /\ DeleteCall(call[t].key)
    /\ Release(t)
    /\ UNCHANGED <<histVars, mlVars, cbVars, auxVars>>

ClearBody(t) ==
    /\ pc[t] = "body"
    /\ call[t].op = "clear"
    /\ ClearCall
    /\ Release(t)
    /\ UNCHANGED <<histVars, mlVars, cbVars, auxVars>>

TickConc ==
    /\ now < MaxTimeConc
    /\ TickCall
    /\ UNCHANGED <<histVars, concVars, mlVars, cbVars, auxVars>>

NextConc ==
    \/ \E t \in Threads, c \in Calls : Begin(t, c)
    \/ \E t \in Threads : SetEvict(t)
    \/ \E t \in Threads : SetInsert(t)
    \/ \E t \in Threads, d \in 0..1 : GetBody(t, d)
    \/ \E t \in Threads : DeleteBody(t)
    \/ \E t \in Threads : ClearBody(t)
    \/ TickConc

SpecConc == Init /\ [][NextConc]_vars

\* C2: with max_size >= 1, in every state reached by concurrent get, set, delete and
\* clear calls the cache stores at most max_size entries.
C2_SizeBounded == max_size >= 1 => Len(cache) <= max_size

\* a set is between its eviction and its insertion in a cache of capacity 2 that
\* was full when the call began
C2_Witness ==
    \E t \in Threads :
        /\ pc[t] = "insert"
        /\ max_size = 2
        /\ Len(cache) = 1
        /\ call[t].key \notin CacheKeys(cache)

(***************************************************************************)
(* SpecTtl: one caller of an LRUCache that has a default TTL, with the     *)
(* last set(key, v, ttl=T) that returned and the result of get (C3).       *)
(***************************************************************************)
ForgetSet(key) == IF lastSet.key = key THEN NoSet ELSE lastSet

TtlSet(key, value, T) ==
    LET r == LRUSet(L1, key, value, T, now)
    IN  /\ SetCall(key, value, T)
        /\ lastSet' = IF r.exc = NoExc /\ T # NoTtl
                      THEN [key |-> key, val |-> value, T |-> T, at |-> now]
                      ELSE ForgetSet(key)
        /\ ret' = NoRet
        /\ UNCHANGED <<hist, notLRU>>

TtlGet(key, d) ==
    /\ GetCall(key, d)
    /\ ret' = Ret("get", key, LRUGet(L1, key, now, now + d), Had(key))
    /\ UNCHANGED <<hist, lastSet, notLRU>>

TtlDelete(key) ==
    /\ DeleteCall(key)
    /\ lastSet' = ForgetSet(key)
    /\ ret' = NoRet
    /\ UNCHANGED <<hist, notLRU>>

TtlClear ==
    /\ ClearCall
    /\ ret' = NoRet
    /\ UNCHANGED <<hist, lastSet, notLRU>>

TtlTick ==
    /\ TickCall
    /\ ret' = NoRet
    /\ UNCHANGED <<hist, lastSet, notLRU>>

InitTtl == Init /\ ttl # NoTtl

NextTtl ==
    \/ \E key \in TwoKeys, value \in Vals, T \in TtlArgs : TtlSet(key, value, T)
    \/ \E key \in TwoKeys, d \in 0..1 : TtlGet(key, d)
    \/ \E key \in TwoKeys : TtlDelete(key)
    \/ TtlClear
    \/ TtlTick

SpecTtl == InitTtl /\ [][NextTtl]_vars

\* the get that has just returned is a get of the key of the last set(key, v, ttl=T),
\* and no set or delete of that key came in between
GetAfterSet == ret.op = "get" /\ lastSet.key = ret.key

Elapsed == now - lastSet.at

\* C3 as claimed: with a default TTL, get(key) after set(key, v, ttl=T), no operation
\* on key in between, returns v while no more than T has elapsed, and returns absent
\* and leaves key unstored once more than T has elapsed.
C3_AsClaimed ==
    GetAfterSet =>
        IF Elapsed <= lastSet.T
        THEN ret.val = lastSet.val
        ELSE ret.val = NoneVal /\ ret.key \notin CacheKeys(cache)

\* C3 as amended: the same, for a key that is still stored when get is called (no
\* set of another key has evicted it and no clear has removed it).
C3_TtlOfSet ==
    GetAfterSet =>
        IF Elapsed <= lastSet.T
        THEN ret.had => ret.val = lastSet.val
        ELSE ret.val = NoneVal /\ ret.key \notin CacheKeys(cache)

\* a get exactly T after set(key, v, ttl=T), T longer than the default TTL, returns v
C3_Witness ==
    /\ GetAfterSet
    /\ ret.had
    /\ lastSet.T > ttl
    /\ Elapsed = lastSet.T
    /\ ret.val = lastSet.val

(***************************************************************************)
(* MultiLevelCache, lines 128-229.  The L2 store is the collaborator of    *)
(* the tests (MockL2Cache, test_multi_level_cache.py lines 80-101): a      *)
(* dict whose set always succeeds.  An operation returns the L1 state      *)
(* (st), the L2 contents (l2), the returned value (val), the exception     *)
(* raised (exc), the number of writes it issued to L2 (w2) and the number  *)
(* of times it invoked the L3 fetcher (f3).                                *)
(***************************************************************************)
MockStore == "store"        \* l2_cache is a MockL2Cache
RedisStore == "redis"       \* l2_cache is a RedisL2Adapter over the RedisManager
ConnectionError == "ConnectionError"

\* RedisManager.get without the guards of lines 80-86
RedisGetUnguarded(store, key) ==
    IF redis_up
    THEN [val |-> store[key], exc |-> NoExc]
    ELSE [val |-> NoneVal, exc |-> ConnectionError]

\* RedisL2Adapter.get -> RedisManager.get_json -> RedisManager.get
RedisGet(store, key) ==
    IF redis_up
    THEN [val |-> store[key], exc |-> NoExc]
    ELSE [val |-> NoneVal, exc |-> NoExc]

\* RedisL2Adapter.set -> RedisManager.set_json -> RedisManager.set
RedisSet(store, key, value) ==
    IF redis_up
    THEN [st |-> [store EXCEPT ![key] = value], val |-> PyTrue]
    ELSE [st |-> store, val |-> PyFalse]

\* RedisL2Adapter.delete -> RedisManager.delete: bool(number of keys removed)
RedisDelete(store, key) ==
    IF redis_up /\ store[key] # NoneVal
    THEN [st |-> [store EXCEPT ![key] = NoneVal], val |-> PyTrue]
    ELSE [st |-> store, val |-> PyFalse]

\* RedisL2Adapter.clear: pass
RedisClear(store) == store

\* MockL2Cache.get, .set, .delete, .clear
MockGet(store, key) == [val |-> store[key], exc |-> NoExc]

MockSet(store, key, value) == [st |-> [store EXCEPT ![key] = value], val |-> PyTrue]

MockDelete(store, key) ==
    IF store[key] # NoneVal
    THEN [st |-> [store EXCEPT ![key] = NoneVal], val |-> PyTrue]
    ELSE [st |-> store, val |-> PyFalse]

MockClear(store) == [k \in DOMAIN store |-> NoneVal]

\* self.l2_cache.get(key), .set(key, value), .delete(key), .clear()
L2Get(store, key) ==
    IF l2_cache = RedisStore THEN RedisGet(store, key) ELSE MockGet(store, key)

L2Set(store, key, value) ==
    IF l2_cache = RedisStore THEN RedisSet(store, key, value) ELSE MockSet(store, key, value)

L2Delete(store, key) ==
    IF l2_cache = RedisStore THEN RedisDelete(store, key) ELSE MockDelete(store, key)

L2Clear(store) ==
    IF l2_cache = RedisStore THEN RedisClear(store) ELSE MockClear(store)

MLOut(st, store, val, exc, w2, f3) ==
    [st |-> st, l2 |-> store, val |-> val, exc |-> exc, w2 |-> w2, f3 |-> f3]

\* lines 159-168 without the write to L2 of lines 164-165
MLGetL3NoL2Write(s, store, key, fv, t) ==
    IF l3_fetcher # NoneVal
    THEN IF fv # NoneVal
         THEN LET w1 == LRUSet(s, key, fv, NoTtl, t)
              IN  MLOut(w1.st, store, IF w1.exc # NoExc THEN NoneVal ELSE fv, w1.exc, 0, 1)
         ELSE MLOut(s, store, fv, NoExc, 0, 1)
    ELSE MLOut(s, store, NoneVal, NoExc, 0, 0)

\* lines 159-168 of get: the L3 fetcher returns fv
MLGetL3(s, store, key, fv, t) ==
    IF l3_fetcher # NoneVal
    THEN IF fv # NoneVal
         THEN LET w1 == LRUSet(s, key, fv, NoTtl, t)
              IN  IF w1.exc # NoExc
                  THEN MLOut(w1.st, store, NoneVal, w1.exc, 0, 1)
                  ELSE IF l2_cache # NoneVal
                  THEN MLOut(w1.st, L2Set(store, key, fv).st, fv, NoExc, 1, 1)
                  ELSE MLOut(w1.st, store, fv, NoExc, 0, 1)
         ELSE MLOut(s, store, fv, NoExc, 0, 1)
    ELSE MLOut(s, store, NoneVal, NoExc, 0, 0)

\* lines 152-157 without the write to L1 of line 156
MLGetL2NoPromote(s, store, key, use_l2, fv, t) ==
    IF use_l2 /\ l2_cache # NoneVal /\ L2Get(store, key).exc # NoExc
    THEN MLOut(s, store, NoneVal, L2Get(store, key).exc, 0, 0)
    ELSE IF use_l2 /\ l2_cache # NoneVal /\ L2Get(store, key).val # NoneVal
    THEN MLOut(s, store, L2Get(store, key).val, NoExc, 0, 0)
    ELSE MLGetL3(s, store, key, fv, t)

\* lines 152-157 of get, then lines 159-168
MLGetL2(s, store, key, use_l2, fv, t) ==
    IF use_l2 /\ l2_cache # NoneVal /\ L2Get(store, key).exc # NoExc
    THEN MLOut(s, store, NoneVal, L2Get(store, key).exc, 0, 0)
    ELSE IF use_l2 /\ l2_cache # NoneVal /\ L2Get(store, key).val # NoneVal
    THEN LET value == L2Get(store, key).val
             w1 == LRUSet(s, key, value, NoTtl, t)
         IN  IF w1.exc # NoExc
             THEN MLOut(w1.st, store, NoneVal, w1.exc, 0, 0)
             ELSE MLOut(w1.st, store, value, NoExc, 0, 0)
    ELSE MLGetL3(s, store, key, fv, t)

\* get(key, use_l1, use_l2) at clock t, lines 144-168
MLGet(s, store, key, use_l1, use_l2, fv, t) ==
    IF use_l1
    THEN LET r1 == LRUGet(s, key, t, t)
         IN  IF r1.val # NoneVal
             THEN MLOut(r1.st, store, r1.val, NoExc, 0, 0)
             ELSE MLGetL2(r1.st, store, key, use_l2, fv, t)
    ELSE MLGetL2(s, store, key, use_l2, fv, t)

\* lines 170-179 without lines 176-177: the result of the L2 write is not looked at
MLSetIgnoresL2(s, store, key, value, l1_ttl, t) ==
    LET w1 == LRUSet(s, key, value, l1_ttl, t)
    IN  IF w1.exc # NoExc
        THEN MLOut(w1.st, store, NoneVal, w1.exc, 0, 0)
        ELSE IF l2_cache # NoneVal
        THEN MLOut(w1.st, L2Set(store, key, value).st, PyTrue, NoExc, 1, 0)
        ELSE MLOut(w1.st, store, PyTrue, NoExc, 0, 0)

\* set(key, value, l1_ttl, l2_ttl) at clock t, lines 170-179
MLSet(s, store, key, value, l1_ttl, t) ==
    LET w1 == LRUSet(s, key, value, l1_ttl, t)
    IN  IF w1.exc # NoExc
        THEN MLOut(w1.st, store, NoneVal, w1.exc, 0, 0)
        ELSE IF l2_cache # NoneVal
        THEN LET w2 == L2Set(store, key, value)
             IN  MLOut(w1.st, w2.st, w2.val, NoExc, 1, 0)
        ELSE MLOut(w1.st, store, PyTrue, NoExc, 0, 0)

\* delete(key), lines 181-190
MLDelete(s, store, key) ==
    LET d1 == LRUDelete(s, key)
    IN  IF l2_cache # NoneVal
        THEN LET d2 == L2Delete(store, key)
             IN  MLOut(d1.st, d2.st, d2.val, NoExc, 1, 0)
        ELSE MLOut(d1.st, store, PyTrue, NoExc, 0, 0)

\* clear(clear_l1, clear_l2), lines 192-198
MLClear(s, store, clear_l1, clear_l2) ==
    LET s1 == IF clear_l1 THEN LRUClear(s).st ELSE s
    IN  IF clear_l2 /\ l2_cache # NoneVal
        THEN MLOut(s1, L2Clear(store), NoneVal, NoExc, 1, 0)
        ELSE MLOut(s1, store, NoneVal, NoExc, 0, 0)

(***************************************************************************)
(* SpecML: one caller of a MultiLevelCache.  mlret records the calls       *)
(* get(key) made with the default use_l1 and use_l2.                       *)
(***************************************************************************)
\* L1.get(key) would hit now
InL1(key) == key \in CacheKeys(cache) /\ ~IsExpired(timestamps, key, now)

\* what L2.get(key) would return now
InL2(key) == IF l2_cache # NoneVal THEN L2Get(l2, key).val ELSE NoneVal

\* the record of a call get(key): what it returned or raised, whether L1 held key (in1)
\* and what L2 held for key (v2) when it was called, the writes it issued to L2 (w2)
\* and its invocations of the fetcher (f3)
MLRet(op, key, r) ==
    [op |-> op, key |-> key, val |-> r.val, exc |-> r.exc,
     in1 |-> InL1(key), v2 |-> InL2(key), w2 |-> r.w2, f3 |-> r.f3]

MLDone(r) ==
    /\ SetL1(r.st)
    /\ l2' = r.l2
    /\ UNCHANGED <<l2_cache, l3_fetcher, now, histVars, concVars, cbVars, auxVars>>

\* set_l2_cache(l2_cache), lines 136-138
SetL2Cache ==
    /\ l2_cache = NoneVal
    /\ l2_cache' = MockStore
    /\ mlret' = NoMLRet
    /\ UNCHANGED <<lruVars, now, histVars, concVars, cbVars, auxVars, l3_fetcher, l2>>

\* set_l3_fetcher(fetcher), lines 140-142
SetL3Fetcher ==
    /\ l3_fetcher = NoneVal
    /\ l3_fetcher' = "fetcher"
    /\ mlret' = NoMLRet
    /\ UNCHANGED <<lruVars, now, histVars, concVars, cbVars, auxVars, l2_cache, l2>>

MultiGet(key, use_l1, use_l2, fv) ==
    LET r == MLGet(L1, l2, key, use_l1, use_l2, fv, now)
    IN  /\ use_l1 => hits + misses < MaxGets
        /\ MLDone(r)
        /\ mlret' = IF use_l1 /\ use_l2 THEN MLRet("get", key, r) ELSE NoMLRet

MultiSet(key, value, l1_ttl) ==
    LET r == MLSet(L1, l2, key, value, l1_ttl, now)
    IN  /\ MLDone(r)
        /\ mlret' = NoMLRet

MultiDelete(key) ==
    LET r == MLDelete(L1, l2, key)
    IN  /\ MLDone(r)
        /\ mlret' = NoMLRet

MultiClear(clear_l1, clear_l2) ==
    LET r == MLClear(L1, l2, clear_l1, clear_l2)
    IN  /\ MLDone(r)
        /\ mlret' = NoMLRet

TickML ==
    /\ now < MaxTimeML
    /\ TickCall
    /\ mlret' = NoMLRet
    /\ UNCHANGED <<histVars, concVars, cbVars, auxVars, l2_cache, l3_fetcher, l2>>

NextML ==
    \/ SetL2Cache
    \/ SetL3Fetcher
    \/ \E key \in TwoKeys, use_l1 \in BOOLEAN, use_l2 \in BOOLEAN, fv \in Vals \cup {NoneVal} :
          MultiGet(key, use_l1, use_l2, fv)
    \/ \E key \in TwoKeys, value \in Vals, l1_ttl \in {NoTtl} : MultiSet(key, value, l1_ttl)
    \/ \E key \in TwoKeys : MultiDelete(key)
    \/ \E clear_l1 \in BOOLEAN, clear_l2 \in BOOLEAN : MultiClear(clear_l1, clear_l2)
    \/ TickML

SpecML == Init /\ [][NextML]_vars

\* a default get(key) has just returned or raised, on an L1 of capacity >= 1 that
\* did not hold key when get was called
GetMissedL1 == mlret.op = "get" /\ max_size >= 1 /\ ~mlret.in1

\* C4: when key is in L2 and not in L1 (of capacity >= 1), get(key) returns L2's
\* value, L1 then holds key with that value, no write went to L2 and the L3 fetcher
\* was not invoked.
C4_PromotesFromL2 ==
    (GetMissedL1 /\ mlret.v2 # NoneVal) =>
        /\ mlret.exc = NoExc
        /\ mlret.val = mlret.v2
        /\ InL1(mlret.key)
        /\ Lookup(cache, mlret.key) = mlret.v2
        /\ mlret.w2 = 0
        /\ l2[mlret.key] = mlret.v2
        /\ mlret.f3 = 0

\* key was evicted from a full L1 or cleared from it, L2 still held it and a fetcher
\* was configured: get returned L2's value
C4_Witness ==
    /\ GetMissedL1
    /\ mlret.v2 # NoneVal
    /\ mlret.val = mlret.v2
    /\ l3_fetcher # NoneVal
    /\ InL1(mlret.key)

\* C5: when key is in neither L1 (of capacity >= 1) nor L2 and a fetcher is
\* configured, get(key) invokes the fetcher exactly once; a non-absent result is
\* returned and stored in L1 and (when configured) L2; an absent result is returned
\* and neither level is written.
C5_FetchesFromL3 ==
    (GetMissedL1 /\ mlret.v2 = NoneVal /\ l3_fetcher # NoneVal) =>
        /\ mlret.exc = NoExc
        /\ mlret.f3 = 1
        /\ IF mlret.val # NoneVal
           THEN /\ InL1(mlret.key)
                /\ Lookup(cache, mlret.key) = mlret.val
                /\ l2_cache # NoneVal => (l2[mlret.key] = mlret.val /\ mlret.w2 = 1)
                /\ l2_cache = NoneVal => mlret.w2 = 0
           ELSE /\ mlret.key \notin CacheKeys(cache)
                /\ l2[mlret.key] = NoneVal
                /\ mlret.w2 = 0

\* a fetched value was returned and is now in L1 and in the configured L2
C5_Witness ==
    /\ GetMissedL1
    /\ mlret.v2 = NoneVal
    /\ mlret.f3 = 1
    /\ mlret.val # NoneVal
    /\ l2_cache # NoneVal
    /\ l2[mlret.key] = mlret.val
    /\ InL1(mlret.key)

LastN(q, n) == SubSeq(q, Len(q) - n + 1, Len(q))

SeqSet(q) == {q[i] : i \in DOMAIN q}

\* C1: in a cache of capacity n >= 1 where no entry expires, once set calls have
\* touched more than n distinct keys the cache holds exactly n keys, the n keys
\* whose last set is most recent.
C1_RetainsMostRecent ==
    (hist.pure /\ max_size >= 1 /\ Len(hist.order) > max_size)
        => /\ Cardinality(CacheKeys(cache)) = max_size
           /\ CacheKeys(cache) = SeqSet(LastN(hist.order, max_size))

(***************************************************************************)
(* CircuitBreakerManager and the circuit_breaker decorator.  The breaker   *)
(* itself (pybreaker.CircuitBreaker) is not part of the repository: its    *)
(* state machine is the one of section 4.3 of the specification.           *)
(***************************************************************************)
FailMax == 5          \* _create_breaker: fail_max of a breaker of any other name
ResetTimeout == 60    \* _create_breaker: reset_timeout of a breaker of any other name
MaxClock == 122       \* the clock of the breaker specifications runs over 0..MaxClock
\* the clock advances by half a reset timeout, or by one second more
TickSteps == {ResetTimeout \div 2, ResetTimeout \div 2 + 1}
AmapNames == {"amap_poi", "amap_weather", "amap_route"}
CBError == "CircuitBreakerError"
FuncError == "Exception"
Ok == "ok"

\* a breaker as constructed: Closed, both counters 0
NewBreaker(fm, rt) ==
    [state |-> "closed", fail_counter |-> 0, success_counter |-> 0,
     opened_at |-> 0, fail_max |-> fm, reset_timeout |-> rt]

\* Open: the reset timeout has elapsed when now - openedAt exceeds it
TimeoutElapsed(b, t) == t - b.opened_at > b.reset_timeout

\* a call arrives at breaker b at time t: admitted or rejected, and b afterwards
BeforeCall(b, t) ==
    CASE b.state = "closed" -> [admit |-> TRUE, probe |-> FALSE, b |-> b]
      [] b.state = "open" ->
            IF TimeoutElapsed(b, t)
            THEN [admit |-> TRUE, probe |-> TRUE, b |-> [b EXCEPT !.state = "half_open"]]
            ELSE [admit |-> FALSE, probe |-> FALSE, b |-> b]
      [] OTHER -> [admit |-> FALSE, probe |-> FALSE, b |-> b]

\* the wrapped function returned: the probe closes the breaker and zeroes both
\* counters; a success on a Closed breaker ends the run of failures; the outcome of
\* a call admitted before the breaker opened drives no transition
OnSuccess(b, probe) ==
    IF probe
    THEN [b EXCEPT !.state = "closed", !.fail_counter = 0, !.success_counter = 0]
    ELSE IF b.state = "closed" THEN [b EXCEPT !.fail_counter = 0] ELSE b

\* a failed probe reopens the breaker without recording the time
OnFailureKeepsOpenedAt(b, probe, t) ==
    IF probe
    THEN [b EXCEPT !.state = "open"]
    ELSE IF b.state = "closed"
         THEN IF b.fail_counter + 1 >= b.fail_max
              THEN [b EXCEPT !.state = "open", !.fail_counter = b.fail_counter + 1,
                             !.opened_at = t]
              ELSE [b EXCEPT !.fail_counter = b.fail_counter + 1]
         ELSE b

\* the wrapped function raised at time t: the failed probe reopens the breaker and
\* restarts the timeout; a failure on a Closed breaker is counted and opens the
\* breaker when the count reaches the threshold
OnFailure(b, probe, t) ==
    IF probe
    THEN [b EXCEPT !.state = "open", !.opened_at = t]
    ELSE IF b.state = "closed"
         THEN IF b.fail_counter + 1 >= b.fail_max
              THEN [b EXCEPT !.state = "open", !.fail_counter = b.fail_counter + 1,
                             !.opened_at = t]
              ELSE [b EXCEPT !.fail_counter = b.fail_counter + 1]
         ELSE b

\* line 27 with one breaker object stored under every name
PutBreakerShared(bs, name, b) == [n \in DOMAIN bs \cup {name} |-> b]

\* get_breaker, line 27: self._breakers[name] = ...
PutBreaker(bs, name, b) ==
    [n \in DOMAIN bs \cup {name} |-> IF n = name THEN b ELSE bs[n]]

\* _create_breaker, lines 40-56: Settings has no amap_circuit_failure_threshold
CreateRaises(name) == name \in AmapNames /\ ~amap.full

\* lines 58-62 with fail_max and reset_timeout exchanged
CreateBreakerSwapped(name) == NewBreaker(ResetTimeout, FailMax)

\* _create_breaker, lines 57-63
CreateBreaker(name) == NewBreaker(FailMax, ResetTimeout)

\* get_breaker, lines 16-28
GetBreaker(bs, name) ==
    IF name \in DOMAIN bs
    THEN [exc |-> NoExc, bs |-> bs]
    ELSE IF CreateRaises(name)
         THEN [exc |-> "AttributeError", bs |-> bs]
         ELSE [exc |-> NoExc, bs |-> PutBreaker(bs, name, CreateBreaker(name))]

\* line 155 with func called before it is handed to the breaker: the breaker is
\* given its result, which is not callable
BreakerSeesNotCallable(outcome) == FuncError

\* wrapper, line 155: the breaker calls func itself and sees how it ends
BreakerSees(outcome) == outcome

\* lines 157-162 with every error raised as a plain Exception
WrapperOnErrorMasked(e) == [pc |-> "done", res |-> FuncError]

\* lines 157-159 with func called directly when the breaker rejects
WrapperOnErrorFallback(e) ==
    IF e = CBError THEN [pc |-> "running", res |-> NoneVal] ELSE [pc |-> "done", res |-> e]

\* wrapper, lines 157-162: a CircuitBreakerError is raised again as a
\* CircuitBreakerError, any other error as itself
WrapperOnError(e) == [pc |-> "done", res |-> e]

ThRec(pc_, name, res, probe) == [pc |-> pc_, name |-> name, res |-> res, probe |-> probe]

\* wrapper, lines 150-159: up to the start of func, or to the rejection of the call
EnterCall(t, name) ==
    /\ th[t].pc = "idle"
    /\ LET g == GetBreaker(breakers, name)
       IN  IF g.exc # NoExc
           THEN /\ th' = [th EXCEPT ![t] = ThRec("done", name, g.exc, FALSE)]
                /\ breakers' = g.bs
           ELSE LET a == BeforeCall(g.bs[name], now)
                    w == WrapperOnError(CBError)
                IN  IF a.admit
                    THEN /\ th' = [th EXCEPT ![t] = ThRec("running", name, NoneVal, a.probe)]
                         /\ breakers' = PutBreaker(g.bs, name, a.b)
                    ELSE /\ th' = [th EXCEPT ![t] = ThRec(w.pc, name, w.res, FALSE)]
                         /\ breakers' = g.bs
    /\ UNCHANGED <<lruVars, now, histVars, concVars, mlVars, auxVars>>

\* wrapper, lines 155-162: func returns (Ok) or raises (FuncError)
CompleteCall(t, outcome) ==
    /\ th[t].pc = "running"
    /\ LET n == th[t].name
           b == breakers[n]
           w == WrapperOnError(outcome)
       IN  /\ breakers' = [breakers EXCEPT ![n] =
                              IF BreakerSees(outcome) = Ok
                              THEN OnSuccess(b, th[t].probe)
                              ELSE OnFailure(b, th[t].probe, now)]
           /\ th' = [th EXCEPT ![t] =
                        IF outcome = Ok
                        THEN ThRec("done", n, Ok, th[t].probe)
                        ELSE ThRec(w.pc, n, w.res, th[t].probe)]
    /\ UNCHANGED <<lruVars, now, histVars, concVars, mlVars, auxVars>>

\* the caller has its result or its error
ReturnCall(t) ==
    /\ th[t].pc = "done"
    /\ th' = [th EXCEPT ![t] = IdleTh]
    /\ UNCHANGED <<lruVars, now, histVars, concVars, mlVars, auxVars, breakers>>

ClockCall(d) ==
    /\ now + d <= MaxClock
    /\ now' = now + d
    /\ UNCHANGED <<lruVars, histVars, concVars, mlVars, auxVars, breakers, th>>

\* the caches play no part in the breaker specifications
InitBreakers == Init /\ max_size = 1 /\ ttl = NoTtl

(***************************************************************************)
(* SpecCB: two threads call breaker-wrapped functions.                     *)
(***************************************************************************)
CBEnter(t, name) == EnterCall(t, name) /\ UNCHANGED <<streak, probeFailedAt>>

CBComplete(t, outcome) ==
    /\ CompleteCall(t, outcome)
    /\ probeFailedAt' = IF th[t].probe /\ outcome = FuncError
                        THEN [probeFailedAt EXCEPT ![th[t].name] = now]
                        ELSE probeFailedAt
    /\ UNCHANGED streak

CBReturn(t) == ReturnCall(t) /\ UNCHANGED <<streak, probeFailedAt>>

CBTick == \E d \in TickSteps : ClockCall(d) /\ UNCHANGED <<streak, probeFailedAt>>

NextCB ==
    \/ \E t \in Threads, name \in Names : CBEnter(t, name)
    \/ \E t \in Threads, outcome \in {Ok, FuncError} : CBComplete(t, outcome)
    \/ \E t \in Threads : CBReturn(t)
    \/ CBTick

SpecCB == InitBreakers /\ [][NextCB]_vars

(***************************************************************************)
(* SpecCBSeq: one caller, so that calls follow one another; streak counts  *)
(* the failing calls since the last call that returned.                    *)
(***************************************************************************)
Caller == "t1"

SeqEnter(name) == EnterCall(Caller, name) /\ UNCHANGED <<streak, probeFailedAt>>

SeqComplete(outcome) ==
    /\ CompleteCall(Caller, outcome)
    /\ streak' = [streak EXCEPT ![th[Caller].name] =
                     IF outcome = Ok THEN 0
                     ELSE IF @ > FailMax THEN @ ELSE @ + 1]
    /\ UNCHANGED probeFailedAt

SeqReturn == ReturnCall(Caller) /\ UNCHANGED <<streak, probeFailedAt>>

SeqTick == \E d \in TickSteps : ClockCall(d) /\ UNCHANGED <<streak, probeFailedAt>>

NextCBSeq ==
    \/ \E name \in Names : SeqEnter(name)
    \/ \E outcome \in {Ok, FuncError} : SeqComplete(outcome)
    \/ SeqReturn
    \/ SeqTick

SpecCBSeq == InitBreakers /\ [][NextCBSeq]_vars

\* thread t begins a call of a function wrapped by breaker n in this step
BeginsCall(t, n) == th[t].pc = "idle" /\ th'[t].pc # "idle" /\ th'[t].name = n

\* the probe of breaker n is in flight
ProbeInFlight(n) ==
    \E p \in Threads : th[p].pc = "running" /\ th[p].name = n /\ th[p].probe

\* the probe call of thread t ends in this step with result res
ProbeEnds(t, res) ==
    th[t].pc = "running" /\ th[t].probe /\ th'[t].pc = "done" /\ th'[t].res = res

\* C6: a breaker created Closed with failureCount 0 and threshold FailMax is still
\* Closed after fewer than FailMax failing calls in a row, and is Open when the
\* FailMax-th failing call in a row has ended.
C6_OpensAtFailMax ==
    \A n \in DOMAIN breakers :
        /\ streak[n] < FailMax => breakers[n].state = "closed"
        /\ (streak[n] = FailMax /\ th[Caller] = ThRec("done", n, FuncError, FALSE))
               => breakers[n].state = "open"

\* the FailMax-th failing call in a row has just ended and the breaker is Open
C6_Witness ==
    \E n \in DOMAIN breakers :
        /\ streak[n] = FailMax
        /\ th[Caller] = ThRec("done", n, FuncError, FALSE)
        /\ breakers[n].state = "open"
        /\ breakers[n].fail_counter = FailMax

\* C7: a call made while the breaker is Open and less than the reset timeout has
\* passed since openedAt ends with the breaker-open error without the wrapped
\* function being invoked, and leaves every breaker as it was.
C7_RejectsWhileOpen ==
    [][\A t \in Threads, n \in DOMAIN breakers :
          (/\ BeginsCall(t, n)
           /\ breakers[n].state = "open"
           /\ now - breakers[n].opened_at < breakers[n].reset_timeout)
          => (/\ th'[t].pc = "done"
              /\ th'[t].res = CBError
              /\ breakers' = breakers)]_vars

\* a call has been rejected by an Open breaker whose reset timeout has not elapsed
C7_Witness ==
    \E t \in Threads, n \in DOMAIN breakers :
        /\ th[t] = ThRec("done", n, CBError, FALSE)
        /\ breakers[n].state = "open"
        /\ now > breakers[n].opened_at
        /\ now - breakers[n].opened_at < breakers[n].reset_timeout

\* C8: the call that arrives at an Open breaker once more than the reset timeout has
\* passed since openedAt is let through as the probe and makes the breaker HalfOpen;
\* the breaker is HalfOpen as long as the probe is in flight, and meanwhile no other
\* call on that breaker starts the wrapped function.
C8_SingleProbe ==
    /\ [](\A n \in DOMAIN breakers : ProbeInFlight(n) => breakers[n].state = "half_open")
    /\ [][\A t \in Threads, n \in DOMAIN breakers :
             /\ (/\ BeginsCall(t, n)
                 /\ breakers[n].state = "open"
                 /\ now - breakers[n].opened_at > breakers[n].reset_timeout)
                => (/\ th'[t].pc = "running"
                    /\ th'[t].probe
                    /\ breakers'[n].state = "half_open")
             /\ ProbeInFlight(n) => ~(BeginsCall(t, n) /\ th'[t].pc = "running")]_vars

\* while the probe of one thread is in flight, the call of the other thread on the
\* same breaker has been rejected
C8_Witness ==
    \E p \in Threads, t \in Threads, n \in DOMAIN breakers :
        /\ p # t
        /\ th[p] = ThRec("running", n, NoneVal, TRUE)
        /\ th[t] = ThRec("done", n, CBError, FALSE)
        /\ breakers[n].state = "half_open"

\* C9: when the probe call returns normally the breaker is Closed with failureCount
\* and successCount both 0.
C9_ProbeSuccessCloses ==
    [][\A t \in Threads :
          ProbeEnds(t, Ok)
          => (/\ breakers'[th[t].name].state = "closed"
              /\ breakers'[th[t].name].fail_counter = 0
              /\ breakers'[th[t].name].success_counter = 0)]_vars

\* a probe has returned normally and the breaker, which had counted FailMax
\* failures, is Closed with both counters 0
C9_Witness ==
    \E t \in Threads, n \in DOMAIN breakers :
        /\ th[t] = ThRec("done", n, Ok, TRUE)
        /\ breakers[n].state = "closed"
        /\ breakers[n].fail_counter = 0
        /\ breakers[n].success_counter = 0

\* C10: when the probe call fails the breaker is Open with openedAt the time of that
\* failure, and a call made less than a reset timeout after the failed probe is
\* rejected with the breaker-open error.
C10_ProbeFailureReopens ==
    /\ [][\A t \in Threads :
             ProbeEnds(t, FuncError)
             => (/\ breakers'[th[t].name].state = "open"
                 /\ breakers'[th[t].name].opened_at = now)]_vars
    /\ [][\A t \in Threads, n \in DOMAIN breakers :
             (/\ BeginsCall(t, n)
              /\ probeFailedAt[n] # NoTtl
              /\ breakers[n].state = "open"
              /\ now - probeFailedAt[n] < breakers[n].reset_timeout)
             => (th'[t].pc = "done" /\ th'[t].res = CBError)]_vars

\* a call has been rejected after the probe failed, before a reset timeout has
\* passed since that failure
C10_Witness ==
    \E t \in Threads, n \in DOMAIN breakers :
        /\ th[t] = ThRec("done", n, CBError, FALSE)
        /\ probeFailedAt[n] # NoTtl
        /\ breakers[n].state = "open"
        /\ breakers[n].opened_at = probeFailedAt[n]
        /\ now > probeFailedAt[n]
        /\ now - probeFailedAt[n] < breakers[n].reset_timeout

(***************************************************************************)
(* Functions decorated with @retry.  tenacity is not part of the           *)
(* repository: the loop is the algorithm of section 4.4 of the             *)
(* specification, run with the arguments the decorators pass.              *)
(***************************************************************************)
StopAfterAttempt == 3    \* stop=stop_after_attempt(3)
MaxAttemptsCfg == 4      \* _retry_max_attempts, as configured, is in 1..MaxAttemptsCfg
MaxSucceedAt == 5        \* the function succeeds at attempt k in 1..MaxSucceedAt, or never (k = 0)

WaitMultiplier == 1      \* wait_exponential(multiplier=1, ...)
WaitMin == 1             \* wait_exponential(..., min=1, ...)
WaitMax == 10            \* wait_exponential(..., max=10)

\* a wait whose exponent is the attempt number, not the attempt number less one
RetryWaitFromAttempt(attempt) ==
    LET e == WaitMultiplier * 2 ^ attempt
        capped == IF e < WaitMax THEN e ELSE WaitMax
    IN  IF capped > WaitMin THEN capped ELSE WaitMin

\* wait=wait_exponential(multiplier=1, min=1, max=10): the seconds slept after the
\* failed attempt number attempt
RetryWait(attempt) ==
    LET e == WaitMultiplier * 2 ^ (attempt - 1)
        capped == IF e < WaitMax THEN e ELSE WaitMax
    IN  IF capped > WaitMin THEN capped ELSE WaitMin

\* the decorator stops after one attempt fewer
StopNowEarly(attempt) == attempt >= StopAfterAttempt - 1

\* stop=stop_after_attempt(3): no further attempt after this one
StopNow(attempt) == attempt >= StopAfterAttempt

\* reraise=True: the caller receives the error of the last attempt
OnExhausted(attempt) == [kind |-> "error", of |-> attempt]

\* one attempt of the loop: fn is invoked; on success its value is returned at once;
\* on failure the loop stops or sleeps before the next attempt
RetryStep(r) ==
    LET n == r.invoked + 1
    IN  IF r.k = r.attempt
        THEN [r EXCEPT !.pc = "done", !.invoked = n, !.res = [kind |-> "value", of |-> r.attempt]]
        ELSE IF StopNow(r.attempt)
             THEN [r EXCEPT !.pc = "done", !.invoked = n, !.res = OnExhausted(r.attempt)]
             ELSE [r EXCEPT !.pc = "sleeping", !.invoked = n]

notRetry == <<lruVars, now, histVars, concVars, mlVars, cbVars, llmkeys, redisVars, adm, amap, lateVars>>

\* AmapService.__init__ has stored cfg in _retry_max_attempts; _search_poi_with_retry
\* is called on an upstream that succeeds at attempt k
RetryCall(k, cfg) ==
    /\ retry.pc = "idle"
    /\ retry' = [IdleRetry EXCEPT !.pc = "calling", !.k = k, !.cfg = cfg, !.attempt = 1]
    /\ UNCHANGED notRetry

RetryAttempt ==
    /\ retry.pc = "calling"
    /\ retry' = RetryStep(retry)
    /\ UNCHANGED notRetry

\* before_sleep, then the wait
RetrySleep ==
    /\ retry.pc = "sleeping"
    /\ retry' = [retry EXCEPT !.pc = "calling", !.attempt = @ + 1,
                              !.slept = Append(@, RetryWait(retry.attempt))]
    /\ UNCHANGED notRetry

RetryReturn ==
    /\ retry.pc = "done"
    /\ retry' = IdleRetry
    /\ UNCHANGED notRetry

NextRetry ==
    \/ \E k \in 0..MaxSucceedAt, cfg \in 1..MaxAttemptsCfg : RetryCall(k, cfg)
    \/ RetryAttempt
    \/ RetrySleep
    \/ RetryReturn

SpecRetry == InitBreakers /\ [][NextRetry]_vars

\* C11: a function that fails on its first k-1 attempts and succeeds on attempt k,
\* with k no more than the attempts the decorator allows, has its value returned
\* after exactly k invocations.
C11_SucceedsAtK ==
    (retry.pc = "done" /\ retry.k \in 1..StopAfterAttempt)
        => /\ retry.res = [kind |-> "value", of |-> retry.k]
           /\ retry.invoked = retry.k

\* the call succeeded at the last attempt allowed
C11_Witness ==
    /\ retry.pc = "done"
    /\ retry.k = StopAfterAttempt
    /\ retry.res.kind = "value"
    /\ retry.invoked = StopAfterAttempt

\* C12: a function that fails on every attempt is invoked exactly as many times as
\* the configured maxAttempts, and the caller receives the error of the last attempt.
C12_InvokesConfigured ==
    (retry.pc = "done" /\ retry.k = 0)
        => /\ retry.invoked = retry.cfg
           /\ retry.res = [kind |-> "error", of |-> retry.cfg]

(***************************************************************************)
(* LLMCache._generate_key.  Strings are sequences of characters; SHA-256   *)
(* is taken to be free of collisions: the digest stands for the text that  *)
(* was hashed.                                                             *)
(***************************************************************************)
MaxStrLen == 2           \* prompts have at most MaxStrLen characters
MaxWarmKeys == 2         \* warm_up receives at most MaxWarmKeys keys
Chars == {"P", ":"}
NoMaxTokens == 0 - 1     \* max_tokens=None (max_tokens is an int)
Temperatures == {0, 7, 10}     \* temperature, in tenths: 0.0, 0.7, 1.0
MaxTokens == {NoMaxTokens, 1, 12}

StrsUpTo(n) == UNION {[1..len -> Chars] : len \in 0..n}
Prompts == StrsUpTo(MaxStrLen)
ModelNames == StrsUpTo(1)

Digits == <<"0", "1", "2", "3", "4", "5", "6", "7", "8", "9">>

RECURSIVE FormatInt(_)
\* f"{n}" of an int n >= 0
FormatInt(n) ==
    IF n < 10 THEN <<Digits[n + 1]>>
    ELSE FormatInt(n \div 10) \o <<Digits[(n % 10) + 1]>>

\* f"{temperature}" of a float with one decimal, given in tenths
FormatFloat(tenths) == FormatInt(tenths \div 10) \o <<".">> \o <<Digits[(tenths % 10) + 1]>>

\* f"{max_tokens}"
FormatMaxTokens(max_tokens) ==
    IF max_tokens = NoMaxTokens THEN <<"N", "o", "n", "e">> ELSE FormatInt(max_tokens)

\* line 51 without the max_tokens field
KeyDataNoMaxTokens(prompt, model, temperature, max_tokens) ==
    prompt \o <<":">> \o model \o <<":">> \o FormatFloat(temperature)

\* line 51: f"{prompt}:{model}:{temperature}:{max_tokens}"
KeyData(prompt, model, temperature, max_tokens) ==
    prompt \o <<":">> \o model \o <<":">> \o FormatFloat(temperature)
        \o <<":">> \o FormatMaxTokens(max_tokens)

\* lines 52-53: hashlib.sha256(key_data.encode('utf-8')).hexdigest()
Sha256Hex(key_data) == [sha256 |-> key_data]

\* _generate_key, lines 48-55
GenerateKey(prompt, model, temperature, max_tokens) ==
    <<"llm:response:", Sha256Hex(KeyData(prompt, model, temperature, max_tokens))>>

Request(prompt, model, temperature, max_tokens) ==
    [prompt |-> prompt, model |-> model, temperature |-> temperature,
     max_tokens |-> max_tokens]

\* a key is derived for a request; the model follows two derivations
DeriveKey(prompt, model, temperature, max_tokens) ==
    /\ Len(llmkeys) < 2
    /\ llmkeys' = llmkeys \o
                  <<[req |-> Request(prompt, model, temperature, max_tokens),
                     key |-> GenerateKey(prompt, model, temperature, max_tokens)]>>
    /\ UNCHANGED <<lruVars, now, histVars, concVars, mlVars, cbVars, retry, redisVars, adm, amap, lateVars>>

NextKeys ==
    \E prompt \in Prompts, model \in ModelNames,
       temperature \in Temperatures, max_tokens \in MaxTokens :
        DeriveKey(prompt, model, temperature, max_tokens)

SpecKeys == InitBreakers /\ [][NextKeys]_vars

\* the number of fields in which two requests differ
FieldsChanged(a, b) ==
    Cardinality({f \in {"prompt", "model", "temperature", "max_tokens"} : a[f] # b[f]})

\* C13: two derivations from the same (prompt, model, temperature, max_tokens) give
\* the same key, and two derivations that differ in exactly one of the four fields
\* give different keys.
C13_KeySensitive ==
    Len(llmkeys) = 2 =>
        /\ llmkeys[1].req = llmkeys[2].req => llmkeys[1].key = llmkeys[2].key
        /\ FieldsChanged(llmkeys[1].req, llmkeys[2].req) = 1
               => llmkeys[1].key # llmkeys[2].key

\* two derivations differ only in max_tokens, None against a number, for a prompt
\* that contains the separator
C13_Witness ==
    /\ Len(llmkeys) = 2
    /\ FieldsChanged(llmkeys[1].req, llmkeys[2].req) = 1
    /\ llmkeys[1].req.max_tokens = NoMaxTokens
    /\ llmkeys[2].req.max_tokens # NoMaxTokens
    /\ llmkeys[1].req.prompt = <<"P", ":">>
    /\ llmkeys[1].key # llmkeys[2].key

(***************************************************************************)
(* SpecStore: one caller of a MultiLevelCache whose L2 is the MockL2Cache  *)
(* of the tests or the RedisL2Adapter of llm_cache.py (lines 13-31) over a *)
(* Redis server that can be unreachable.  L1 has no default TTL and the    *)
(* clock stands still.  mlop records the call that is returning; the       *)
(* caller makes its next call once it has the result (StoreReturn).        *)
(* SpecWarm is the same cache under set and warm_up calls.                 *)
(***************************************************************************)
FetchError == "FetchError"      \* the fetcher raises
FetchOutcomes == {"v1", NoneVal, FetchError}

\* lines 222-226 of warm_up, counting the key without storing it
WarmUpStepNoSet(s, store, key, value, count, t) ==
    IF value # NoneVal
    THEN [st |-> s, l2 |-> store, count |-> count + 1, exc |-> NoExc]
    ELSE [st |-> s, l2 |-> store, count |-> count, exc |-> NoExc]

\* lines 222-226 of warm_up: the fetcher has returned value for key
WarmUpStep(s, store, key, value, count, t) ==
    IF value # NoneVal
    THEN LET w == MLSet(s, store, key, value, NoTtl, t)
         IN  IF w.exc # NoExc
             THEN [st |-> w.st, l2 |-> w.l2, count |-> count, exc |-> w.exc]
             ELSE [st |-> w.st, l2 |-> w.l2, count |-> count + 1, exc |-> NoExc]
    ELSE [st |-> s, l2 |-> store, count |-> count, exc |-> NoExc]

\* the loop of lines 220-226: value = actual_fetcher(key) for each key in turn
RECURSIVE WarmUpLoop(_, _, _, _, _, _)
WarmUpLoop(s, store, keys, fetch, count, t) ==
    IF keys = <<>>
    THEN [st |-> s, l2 |-> store, count |-> count, exc |-> NoExc]
    ELSE IF fetch[Head(keys)] = FetchError
    THEN [st |-> s, l2 |-> store, count |-> count, exc |-> FetchError]
    ELSE LET r == WarmUpStep(s, store, Head(keys), fetch[Head(keys)], count, t)
         IN  IF r.exc # NoExc THEN r
             ELSE WarmUpLoop(r.st, r.l2, Tail(keys), fetch, r.count, t)

\* warm_up(keys, fetcher), lines 212-229; given: a fetcher argument was passed
MLWarmUp(s, store, keys, given, fetch, t) ==
    IF ~given /\ l3_fetcher = NoneVal
    THEN [st |-> s, l2 |-> store, count |-> 0, exc |-> NoExc]
    ELSE WarmUpLoop(s, store, keys, fetch, 0, t)

\* what L1 holds for key
L1Value(key) == IF key \in CacheKeys(cache) THEN Lookup(cache, key) ELSE NoneVal

\* the keys stored in L1 or in the L2 store
StoredKeys == CacheKeys(cache) \cup {k \in DOMAIN l2 : l2[k] # NoneVal}

MLOp(op, key, value, r) ==
    [NoMLOp EXCEPT !.op = op, !.key = key, !.value = value, !.val = r.val, !.exc = r.exc,
                   !.old1 = L1Value(key), !.pre = StoredKeys]

StoreDone(r) ==
    /\ mlop = NoMLOp
    /\ SetL1(r.st)
    /\ l2' = r.l2
    /\ UNCHANGED <<l2_cache, l3_fetcher, mlret, redis_up, now, histVars, concVars, cbVars,
                   retry, llmkeys, adm, amap, lateVars>>

\* set_l2_cache(l2_cache), lines 136-138, as called by the tests and by LLMCache.__init__
StoreSetL2Cache(kind) ==
    /\ mlop = NoMLOp
    /\ l2_cache = NoneVal
    /\ l2_cache' = kind
    /\ mlop' = NoMLOp
    /\ UNCHANGED <<lruVars, now, histVars, concVars, cbVars, retry, llmkeys, redis_up,
                   l3_fetcher, l2, mlret, adm, amap, lateVars>>

StoreSetL3Fetcher ==
    /\ mlop = NoMLOp
    /\ l3_fetcher = NoneVal
    /\ l3_fetcher' = "fetcher"
    /\ mlop' = NoMLOp
    /\ UNCHANGED <<lruVars, now, histVars, concVars, cbVars, retry, llmkeys, redis_up,
                   l2_cache, l2, mlret, adm, amap, lateVars>>

\* the connection to the Redis server is lost, or comes back
RedisFlip ==
    /\ mlop = NoMLOp
    /\ redis_up' = ~redis_up
    /\ mlop' = NoMLOp
    /\ UNCHANGED <<lruVars, now, histVars, concVars, mlVars, cbVars, retry, llmkeys, adm, amap, lateVars>>

StoreGet(key, fv) ==
    LET r == MLGet(L1, l2, key, TRUE, TRUE, fv, now)
    IN  /\ hits + misses < MaxGets
        /\ StoreDone(r)
        /\ mlop' = MLOp("get", key, fv, r)

StoreSet(key, value) ==
    LET r == MLSet(L1, l2, key, value, NoTtl, now)
    IN  /\ StoreDone(r)
        /\ mlop' = MLOp("set", key, value, r)

StoreDelete(key) ==
    LET r == MLDelete(L1, l2, key)
    IN  /\ StoreDone(r)
        /\ mlop' = MLOp("delete", key, NoneVal, r)

StoreClear ==
    LET r == MLClear(L1, l2, TRUE, TRUE)
    IN  /\ StoreDone(r)
        /\ mlop' = MLOp("clear", NoneVal, NoneVal, r)

StoreWarmUp(keys, given, fetch) ==
    LET r == MLWarmUp(L1, l2, keys, given, fetch, now)
    IN  /\ StoreDone(r)
        /\ mlop' = [NoMLOp EXCEPT !.op = "warm_up", !.keys = keys, !.fetch = fetch,
                                  !.count = r.count, !.exc = r.exc, !.pre = StoredKeys,
                                  !.val = IF given \/ l3_fetcher # NoneVal
                                          THEN "fetcher" ELSE NoneVal]

\* the caller has the result of its call
StoreReturn ==
    /\ mlop # NoMLOp
    /\ mlop' = NoMLOp
    /\ UNCHANGED <<lruVars, now, histVars, concVars, mlVars, cbVars, retry, llmkeys, redis_up,
                   adm, amap, lateVars>>

KeyLists == UNION {[1..len -> TwoKeys] : len \in 0..MaxWarmKeys}

InitStore == Init /\ ttl = NoTtl

NextStore ==
    \/ \E kind \in {MockStore, RedisStore} : StoreSetL2Cache(kind)
    \/ StoreSetL3Fetcher
    \/ RedisFlip
    \/ \E key \in TwoKeys, fv \in Vals \cup {NoneVal} : StoreGet(key, fv)
    \/ \E key \in TwoKeys, value \in Vals : StoreSet(key, value)
    \/ \E key \in TwoKeys : StoreDelete(key)
    \/ StoreClear
    \/ StoreReturn

SpecStore == InitStore /\ [][NextStore]_vars

NextWarm ==
    \/ \E kind \in {MockStore, RedisStore} : StoreSetL2Cache(kind)
    \/ StoreSetL3Fetcher
    \/ RedisFlip
    \/ \E key \in TwoKeys : StoreSet(key, "v2")
    \/ \E keys \in KeyLists, given \in BOOLEAN, fetch \in [TwoKeys -> FetchOutcomes] :
          StoreWarmUp(keys, given, fetch)
    \/ StoreReturn

SpecWarm == InitStore /\ [][NextWarm]_vars

\* the L2 store is configured and would report a failed write now
L2WriteFails == l2_cache # NoneVal /\ L2Set(l2, "k1", "v1").val # PyTrue

\* C14: on an L1 of capacity >= 1, set(key, value) returns normally, L1 then holds
\* value for key, L2 holds it when L2 is configured and its write succeeded, and the
\* call returns True exactly when no configured level reported a failed write: when
\* the L2 write fails it returns False and L1 still holds the new value.
C14_SetReportsL2 ==
    (mlop.op = "set" /\ max_size >= 1) =>
        /\ mlop.exc = NoExc
        /\ L1Value(mlop.key) = mlop.value
        /\ (l2_cache # NoneVal /\ ~L2WriteFails) => l2[mlop.key] = mlop.value
        /\ mlop.val = PyTrue <=> ~L2WriteFails
        /\ L2WriteFails => mlop.val = PyFalse

\* a set has returned False with Redis unreachable, and L1 holds the new value while
\* L2 does not
C14_Witness ==
    /\ mlop.op = "set"
    /\ l2_cache = RedisStore
    /\ ~redis_up
    /\ mlop.val = PyFalse
    /\ L1Value(mlop.key) = mlop.value
    /\ l2[mlop.key] # mlop.value

\* the L2 store is the Redis adapter and the Redis server is unreachable
L2Down == l2_cache = RedisStore /\ ~redis_up

\* C15: with both levels configured, after delete(key) neither L1 nor (a working) L2
\* holds key, and after clear() L1 and (a working) L2 are empty; when the L2 part
\* fails the call returns False and L1 no longer holds the key.
C15_ClearsBothLevels ==
    /\ (mlop.op = "delete" /\ l2_cache # NoneVal) =>
           /\ mlop.exc = NoExc
           /\ mlop.key \notin CacheKeys(cache)
           /\ ~L2Down => l2[mlop.key] = NoneVal
           /\ L2Down => mlop.val = PyFalse
    /\ (mlop.op = "clear" /\ l2_cache # NoneVal) =>
           /\ mlop.exc = NoExc
           /\ cache = <<>>
           /\ ~L2Down => \A k \in DOMAIN l2 : l2[k] = NoneVal
           /\ L2Down => mlop.val = PyFalse

\* the positions of keys whose fetch returned a value
WarmFetched ==
    {i \in DOMAIN mlop.keys : mlop.fetch[mlop.keys[i]] \notin {NoneVal, FetchError}}

\* every key whose fetch returned a value is stored with it: in L2 when L2 is
\* configured, in L1 when the batch is no longer than the capacity of L1
WarmStored ==
    \A i \in WarmFetched :
        LET k == mlop.keys[i]
        IN  /\ l2_cache # NoneVal => l2[k] = mlop.fetch[k]
            /\ Len(mlop.keys) <= max_size => L1Value(k) = mlop.fetch[k]

C17_FetchFailureIsolated ==
    (/\ mlop.op = "warm_up"
     /\ mlop.val # NoneVal
     /\ max_size >= 1
     /\ \E i \in DOMAIN mlop.keys : mlop.fetch[mlop.keys[i]] = FetchError) =>
        /\ mlop.exc = NoExc
        /\ mlop.count = Cardinality(WarmFetched)
        /\ ~L2WriteFails => WarmStored

\* C18: when the Redis server behind L2 is unreachable, get(key) on an L1 of capacity
\* >= 1 raises nothing: it returns the value of L1 when L1 holds key, and otherwise the
\* result of the L3 fetcher, or absent when no fetcher is configured.
C18_GetSurvivesL2 ==
    (mlop.op = "get" /\ max_size >= 1 /\ L2Down) =>
        /\ mlop.exc = NoExc
        /\ mlop.old1 # NoneVal => mlop.val = mlop.old1
        /\ mlop.old1 = NoneVal =>
               mlop.val = (IF l3_fetcher # NoneVal THEN mlop.value ELSE NoneVal)

\* Redis is unreachable and holds a value for key, L1 does not: get(key) has returned
\* what the L3 fetcher returned
C18_Witness ==
    /\ mlop.op = "get"
    /\ L2Down
    /\ max_size >= 1
    /\ mlop.old1 = NoneVal
    /\ l2[mlop.key] \notin {NoneVal, mlop.value}
    /\ l3_fetcher # NoneVal
    /\ mlop.value # NoneVal
    /\ mlop.val = mlop.value
    /\ mlop.exc = NoExc

(***************************************************************************)
(* SpecAdmin: one caller of functions wrapped by the breakers of two       *)
(* names, and an administrator who resets breakers.                        *)
(***************************************************************************)
AdminNames == {"test_breaker", "other_breaker"}

\* CircuitBreaker.close(): the breaker is forced Closed and both counters are zeroed
BreakerClose(b) == [b EXCEPT !.state = "closed", !.fail_counter = 0, !.success_counter = 0]

\* reset_breaker(name), lines 112-121: close(), then reset().  CircuitBreaker is
\* imported from pybreaker (line 4), which is not pinned to a version: the object
\* answers reset(), or it has no such attribute (has_reset)
ResetBreaker(name, has_reset) ==
    /\ adm = NoAdm
    /\ IF name \in DOMAIN breakers
       THEN /\ breakers' = [breakers EXCEPT ![name] = BreakerClose(@)]
            /\ adm' = [name |-> name,
                       exc |-> IF has_reset THEN NoExc ELSE "AttributeError"]
       ELSE /\ breakers' = breakers
            /\ adm' = [name |-> name, exc |-> NoExc]
    /\ UNCHANGED <<lruVars, now, histVars, concVars, mlVars, retry, llmkeys, redisVars,
                   th, streak, probeFailedAt, amap, lateVars>>

\* the administrator has the answer: router reset_breaker, lines 72-82
AdminReturn ==
    /\ adm # NoAdm
    /\ adm' = NoAdm
    /\ UNCHANGED <<lruVars, now, histVars, concVars, mlVars, cbVars, retry, llmkeys,
                   redisVars, amap, lateVars>>

NextAdmin ==
    \/ \E name \in AdminNames : SeqEnter(name)
    \/ \E outcome \in {Ok, FuncError} : CompleteCall(Caller, outcome)
                                           /\ UNCHANGED <<streak, probeFailedAt>>
    \/ SeqReturn
    \/ SeqTick
    \/ \E name \in AdminNames, has_reset \in BOOLEAN : ResetBreaker(name, has_reset)
    \/ AdminReturn

SpecAdmin == InitBreakers /\ [][NextAdmin]_vars

\* this step is a reset_breaker(n) on a breaker that exists
Resets(n) == adm = NoAdm /\ adm' # NoAdm /\ adm'.name = n /\ n \in DOMAIN breakers

\* C19: reset_breaker(name) on an existing breaker raises nothing and leaves the
\* breaker Closed with failureCount = 0 and successCount = 0, whatever its state was.
C19_ResetCloses ==
    [][\A n \in AdminNames :
          Resets(n) =>
              /\ adm'.exc = NoExc
              /\ breakers'[n].state = "closed"
              /\ breakers'[n].fail_counter = 0
              /\ breakers'[n].success_counter = 0]_vars

\* this step is part of a call of a function wrapped by breaker n, or a reset of n
ActsOn(n) ==
    \/ th'[Caller] # th[Caller] /\ n \in {th[Caller].name, th'[Caller].name}
    \/ adm = NoAdm /\ adm' # NoAdm /\ adm'.name = n

\* what the registry holds for name
Registered(bs, name) == IF name \in DOMAIN bs THEN bs[name] ELSE NoAdm

\* C20: for two distinct names A and B, a step of a call, a failure, a trip or a reset
\* on A leaves B's breaker as it is (state and counters), and with it the answer, to
\* admit or to reject, that a call on B would get.
C20_Isolated ==
    [][\A a \in AdminNames, b \in AdminNames :
          (a # b /\ ActsOn(a)) =>
              /\ Registered(breakers', b) = Registered(breakers, b)
              /\ b \in DOMAIN breakers =>
                     BeforeCall(breakers'[b], now').admit = BeforeCall(breakers[b], now).admit]_vars

\* A's breaker is Open after FailMax failures while a call on B is running, admitted
\* by B's breaker, which is Closed with no failure counted
C20_Witness ==
    \E a \in AdminNames, b \in AdminNames :
        /\ a # b
        /\ a \in DOMAIN breakers
        /\ b \in DOMAIN breakers
        /\ breakers[a].state = "open"
        /\ breakers[a].fail_counter = FailMax
        /\ breakers[b].state = "closed"
        /\ breakers[b].fail_counter = 0
        /\ th[Caller] = ThRec("running", b, NoneVal, FALSE)

(***************************************************************************)
(* SpecTrip: one caller of a breaker-wrapped function, with the error that *)
(* breaker.call raises when the failure of func trips the breaker.         *)
(***************************************************************************)
\* breaker.call(func), line 155, when func has ended with outcome and the breaker has
\* gone from before to after.  CircuitBreaker is imported from pybreaker (line 4),
\* not pinned to a version: when the failure opens the breaker, the library raises
\* the error of func again or, with its default throw_new_error_on_trip, a
\* CircuitBreakerError in its place (throw_new)
CallRaises(before, after, outcome, throw_new) ==
    IF outcome # Ok /\ before.state # "open" /\ after.state = "open" /\ throw_new
    THEN CBError
    ELSE outcome

\* wrapper, lines 155-162: func returns (Ok) or raises (FuncError)
TripComplete(outcome, throw_new) ==
    /\ th[Caller].pc = "running"
    /\ LET n == th[Caller].name
           b == breakers[n]
           after == IF BreakerSees(outcome) = Ok
                    THEN OnSuccess(b, th[Caller].probe)
                    ELSE OnFailure(b, th[Caller].probe, now)
           raised == CallRaises(b, after, outcome, throw_new)
       IN  /\ breakers' = [breakers EXCEPT ![n] = after]
           /\ th' = [th EXCEPT ![Caller] =
                        IF raised = Ok
                        THEN ThRec("done", n, Ok, th[Caller].probe)
                        ELSE ThRec(WrapperOnError(raised).pc, n, WrapperOnError(raised).res,
                                   th[Caller].probe)]
    /\ UNCHANGED <<lruVars, now, histVars, concVars, mlVars, auxVars, streak, probeFailedAt>>

NextTrip ==
    \/ \E name \in Names : SeqEnter(name)
    \/ \E outcome \in {Ok, FuncError}, throw_new \in BOOLEAN : TripComplete(outcome, throw_new)
    \/ SeqReturn
    \/ SeqTick

SpecTrip == InitBreakers /\ [][NextTrip]_vars

\* C21: the caller receives the breaker-open error only from a call that ends without
\* func having been started; a call in which func ran and failed ends with the
\* failure of func, also when that failure trips the breaker.
C21_OpenErrorOnlyWhenNotInvoked ==
    [][\A t \in Threads :
          (th[t].pc # "done" /\ th'[t].pc = "done" /\ th'[t].res = CBError)
              => th[t].pc = "idle"]_vars

(***************************************************************************)
(* SpecLRU: one caller of an LRUCache built with a default TTL, who sets    *)
(* without a ttl argument, so that every entry lives for the default TTL.  *)
(* ret is the last call;                                                   *)
(* hist.order lists the stored keys in the order in which the caller has   *)
(* last touched them (set, or read with a hit), least recently touched     *)
(* first, and hist.gone the keys that the last call removed.  hist.got is  *)
(* a get that hit and whose key has been stored ever since without being   *)
(* set again: its key, the other keys stored at the time of the get that   *)
(* have been stored ever since (others) and those of them that no call has *)
(* touched since (fresh).                                                  *)
(***************************************************************************)
\* hist.got after a call that leaves the keys `stored`, having touched `touched`,
\* removed `removed` and, for a get that hit, read `hit` (NoneVal otherwise)
GotAfter(g, stored, touched, removed, hit) ==
    IF hit # NoneVal /\ g.key \in {NoneVal, hit}
    THEN [key |-> hit, others |-> stored \ {hit}, fresh |-> stored \ {hit}]
    ELSE IF g.key \in touched \cup removed
    THEN NoGot
    ELSE [g EXCEPT !.others = @ \ removed, !.fresh = (@ \ removed) \ touched]

\* hist after a call that has touched the key `touched` (NoneVal: none) and leaves the
\* cache c2; hit is the key of a get that hit (NoneVal otherwise).  hist.got is kept
\* for a cache without expiry only.
HistAfter(c2, touched, hit) ==
    LET stored == CacheKeys(c2)
        q == IF touched = NoneVal THEN hist.order ELSE Touch(hist.order, touched)
    IN  [hist EXCEPT
           !.order = SelectSeq(q, LAMBDA k : k \in stored),
           !.gone = CacheKeys(cache) \ stored,
           !.got = IF ttl = NoTtl
                   THEN GotAfter(@, stored, {touched} \ {NoneVal}, CacheKeys(cache) \ stored, hit)
                   ELSE NoGot]

LruSet(key, value) ==
    LET r == LRUSet(L1, key, value, NoTtl, now)
    IN  /\ SetCall(key, value, NoTtl)
        /\ ret' = Ret("set", key, r, Had(key))
        /\ hist' = IF r.exc = NoExc THEN HistAfter(r.st.cache, key, NoneVal) ELSE hist
        /\ UNCHANGED <<lastSet, notLRU>>

LruGetCall(key) ==
    LET r == LRUGet(L1, key, now, now)
    IN  /\ GetCall(key, 0)
        /\ ret' = Ret("get", key, r, Had(key))
        /\ hist' = IF r.val # NoneVal
                   THEN HistAfter(r.st.cache, key, key)
                   ELSE HistAfter(r.st.cache, NoneVal, NoneVal)
        /\ UNCHANGED <<lastSet, notLRU>>

LruGet(key) == hits + misses < MaxGetsLRU /\ LruGetCall(key)

LruDelete(key) ==
    LET r == LRUDelete(L1, key)
    IN  /\ DeleteCall(key)
        /\ ret' = Ret("delete", key, r, Had(key))
        /\ hist' = HistAfter(r.st.cache, NoneVal, NoneVal)
        /\ UNCHANGED <<lastSet, notLRU>>

LruClear ==
    /\ ClearCall
    /\ ret' = Ret("clear", NoneVal, LRUClear(L1), FALSE)
    /\ hist' = HistAfter(<<>>, NoneVal, NoneVal)
    /\ UNCHANGED <<lastSet, notLRU>>

LruTick ==
    /\ now < MaxTimeLRU
    /\ TickCall
    /\ ret' = NoRet
    /\ hist' = [hist EXCEPT !.gone = {}]
    /\ UNCHANGED <<lastSet, notLRU>>

NextLRU ==
    \/ \E key \in Keys, value \in Vals : LruSet(key, value)
    \/ \E key \in Keys : LruGet(key)
    \/ \E key \in Keys : LruDelete(key)
    \/ LruClear
    \/ LruTick

SpecLRU == InitTtl /\ [][NextLRU]_vars

(***************************************************************************)
(* SpecTouch: the same caller on a cache without expiry, with more gets.   *)
(***************************************************************************)
TouchGet(key) == hits + misses < MaxGetsTouch /\ LruGetCall(key)

NextTouch ==
    \/ \E key \in Keys, value \in Vals : LruSet(key, value)
    \/ \E key \in Keys : TouchGet(key)
    \/ \E key \in Keys : LruDelete(key)
    \/ LruClear

SpecTouch == InitStore /\ [][NextTouch]_vars

\* the keys stored and not expired
LiveKeys == {k \in CacheKeys(cache) : ~IsExpired(timestamps, k, now)}

\* the least recently touched of the keys stored and not expired
OldestLive ==
    hist.order[CHOOSE i \in DOMAIN hist.order :
                   /\ hist.order[i] \in LiveKeys
                   /\ \A j \in 1..(i - 1) : hist.order[j] \notin LiveKeys]

\* this step is a call set(key, ...)
SetStep(key) == ret'.op = "set" /\ ret'.key = key

\* the entries that a step removes from the cache
Removed == CacheKeys(cache) \ CacheKeys(cache')

\* C22: when set is called on a cache of capacity >= 1 with a key that is not among
\* the stored, non-expired entries, every expired entry is removed; if the non-expired
\* entries are max_size, exactly one of them is removed, the least recently touched,
\* and if they are fewer than max_size, none of them is removed.  The call returns
\* normally and stores the key.
C22_EvictsLru ==
    [][\A key \in Keys :
          (SetStep(key) /\ key \notin LiveKeys /\ max_size >= 1) =>
              /\ ret'.exc = NoExc
              /\ key \in CacheKeys(cache')
              /\ (CacheKeys(cache) \ LiveKeys) \ {key} \subseteq Removed
              /\ IF Cardinality(LiveKeys) >= max_size
                 THEN Removed \cap LiveKeys = {OldestLive}
                 ELSE Removed \cap LiveKeys = {}]_vars

\* C22 as stated, counting every stored entry: when set is called with a key that is
\* not stored and the cache stores max_size entries, exactly one entry is removed and
\* it is the least recently touched of the non-expired ones.
C22_AsClaimed ==
    [][\A key \in Keys :
          (SetStep(key) /\ ~Had(key) /\ max_size >= 1 /\ Len(cache) = max_size) =>
              /\ Cardinality(Removed) = 1
              /\ LiveKeys # {}
              /\ Removed = {OldestLive}]_vars

\* a cache of capacity 2 has just evicted k2 for the new key k3: k2 was set before k1
\* and k1 was read after that
C22_Witness ==
    /\ max_size = 2
    /\ ret.op = "set"
    /\ ret.key = "k3"
    /\ ~ret.had
    /\ hist.gone = {"k2"}
    /\ hits = 1
    /\ hist.order = <<"k1", "k3">>
    /\ CacheKeys(cache) = {"k1", "k3"}

\* C23: set on a key that is stored and not expired leaves it stored as the most
\* recently used key with its TTL clock restarted, and removes no other non-expired
\* key, also when the cache is at capacity.
C23_ReplaceKeepsOthers ==
    [][\A key \in Keys :
          (SetStep(key) /\ key \in LiveKeys /\ max_size >= 1) =>
              /\ ret'.exc = NoExc
              /\ cache' # <<>>
              /\ cache'[Len(cache')].k = key
              /\ timestamps'[key] = now
              /\ LiveKeys \subseteq CacheKeys(cache')]_vars

\* this step is a set that evicts key: key was stored and the set of another key
\* leaves it not stored
Evicts(key) == ret'.op = "set" /\ ret'.key # key /\ key \in Removed

\* the call before this step was a get(key) that hit
JustGot(key) == ret.op = "get" /\ ret.key = key /\ ret.val # NoneVal

\* C24: in a cache of capacity >= 2 with no expiry, a set of a new key at capacity
\* that directly follows a get(key) that hit does not evict key, and a set evicts key
\* only when each other key that was stored at the time of the get has been removed or
\* touched again since the get.
C24_GetMarksRecent ==
    [][\A key \in Keys :
          (max_size >= 2 /\ ttl = NoTtl) =>
              /\ (JustGot(key) /\ ret'.op = "set" /\ ~ret'.had /\ Len(cache) >= max_size)
                     => key \in CacheKeys(cache')
              /\ (hist.got.key = key /\ Evicts(key)) => hist.got.fresh = {}]_vars

\* C24 as stated: a set evicts key only when each other key that was stored at the
\* time of the get has been removed since the get.
C24_AsClaimed ==
    [][\A key \in Keys :
          (max_size >= 2 /\ ttl = NoTtl /\ hist.got.key = key /\ Evicts(key))
              => hist.got.others = {}]_vars

\* in a cache of capacity 2 that held k1 and k2, k1 has been read and the set of the
\* new key k3 has then evicted k2
C24_Witness ==
    /\ max_size = 2
    /\ ttl = NoTtl
    /\ hist.got = [key |-> "k1", others |-> {}, fresh |-> {}]
    /\ hist.gone = {"k2"}
    /\ ret.op = "set"
    /\ ret.key = "k3"
    /\ ~ret.had
    /\ CacheKeys(cache) = {"k1", "k3"}

\* this step is a call delete(key)
DeleteStep(key) == ret'.op = "delete" /\ ret'.key = key

\* C25: delete(key) returns True exactly when key is stored at the time of the call,
\* expired or not, and leaves key not stored; a key that is not stored stays so until
\* set(key), so that a delete(key) that directly follows a delete(key) returns False,
\* and so does any later one with no set(key) in between.
C25_DeleteReportsStored ==
    [][\A key \in Keys :
          /\ DeleteStep(key) =>
                 /\ ret'.exc = NoExc
                 /\ ret'.val = IF key \in CacheKeys(cache) THEN PyTrue ELSE PyFalse
                 /\ key \notin CacheKeys(cache')
          /\ (ret.op = "delete" /\ ret.key = key /\ DeleteStep(key)) => ret'.val = PyFalse
          /\ (key \notin CacheKeys(cache) /\ ~SetStep(key)) => key \notin CacheKeys(cache')]_vars

\* late enough for an entry to have expired, delete(k1) has just removed k1 and has
\* returned True; k2, which has not expired, is still stored
C25_Witness ==
    /\ ret.op = "delete"
    /\ ret.key = "k1"
    /\ ret.val = PyTrue
    /\ hist.gone = {"k1"}
    /\ CacheKeys(cache) = {"k2"}
    /\ now - timestamps["k2"] <= ttl
    /\ now > ttl

\* the state of the cache after this step
L1Next == [cache |-> cache', timestamps |-> timestamps', hits |-> hits', misses |-> misses']

\* C26: right after clear(), get_stats reports size 0, hits 0 and misses 0; and from
\* then until the next set the cache stays empty, so that every get returns None.
C26_ClearResets ==
    [][/\ ret'.op = "clear" =>
              /\ ret'.exc = NoExc
              /\ GetStats(L1Next).size = 0
              /\ GetStats(L1Next).hits = 0
              /\ GetStats(L1Next).misses = 0
              /\ GetStats(L1Next).hit_rate = 0
       /\ (cache = <<>> /\ ret'.op = "get") => ret'.val = NoneVal /\ ret'.exc = NoExc
       /\ (cache = <<>> /\ ret'.op # "set") => cache' = <<>>]_vars

\* clear() has just emptied a cache that held an entry, some time after it was built
C26_Witness ==
    /\ ret.op = "clear"
    /\ hist.gone # {}
    /\ GetStats(L1).size = 0
    /\ GetStats(L1).hits = 0
    /\ now > 0

\* C27: on a cache with max_size 0 or 1, every set returns normally and leaves at most
\* max_size entries stored; with max_size 1 it leaves its own key as the only entry,
\* so that the set of a second key evicts the first.
C27_SmallCapacities ==
    [][\A key \in Keys :
          (SetStep(key) /\ max_size \in {0, 1}) =>
              /\ ret'.exc = NoExc
              /\ Len(cache') <= max_size
              /\ max_size = 1 => CacheKeys(cache') = {key}]_vars

(***************************************************************************)
(* AmapService (services/amap_service.py) over POICache and WeatherCache   *)
(* (cache/poi_cache.py, cache/weather_cache.py).  The L1 of the POI cache  *)
(* is the LRUCache of the variables above and its Redis store is l2.       *)
(* Settings (config.py) defines none of the fields that AmapService, the   *)
(* two caches and _create_breaker read, while the repository's tests       *)
(* expect them (test_multi_level_cache.py, line 372; test_retry.py, line   *)
(* 111): amap.full tells whether the process runs with a Settings that     *)
(* has them.                                                               *)
(***************************************************************************)
Cities == {"bj"}
KeywordsArgs == {"cafe"}
EmptyList == "[]"
EmptyDict == "{}"
PoiLists == Vals \cup {EmptyList}

\* str(citylimit) inside the f-string of line 29
FormatBool(b) == IF b THEN "True" ELSE "False"

\* POICache._generate_key, lines 27-29
PoiKey(city, keywords, citylimit) ==
    "poi:search:" \o city \o ":" \o keywords \o ":" \o FormatBool(citylimit)

\* RedisManager.exists on the store of the POI cache
RedisHas(store, key) == key \in DOMAIN store /\ store[key] # NoneVal

\* the function decorated with @retry(stop=stop_after_attempt(3), reraise=True), lines
\* 149-166: the upstream answers from its succeed_at-th invocation on
WithRetry(succeed_at) ==
    IF succeed_at <= StopAfterAttempt
    THEN [calls |-> succeed_at, exc |-> NoExc]
    ELSE [calls |-> StopAfterAttempt, exc |-> FuncError]

\* MultiLevelCache.get on a POICache that is its own L2: self.l2_cache.get(key), line
\* 153, is POICache.get(city, keywords, citylimit) called with one argument
SelfL2Get(key) == [val |-> NoneVal, exc |-> "TypeError"]

\* MultiLevelCache.set, line 176: self.l2_cache.set(key, value, ttl=l2_ttl) is
\* POICache.set(city, keywords, citylimit, pois, ttl) called without citylimit and pois
SelfL2Set(key, value) == [val |-> NoneVal, exc |-> "TypeError"]

\* POICache.get, lines 31-47, at clock t
PoiCacheGet(s, key, t) ==
    LET g == LRUGet(s, key, t, t)
    IN  IF g.val # NoneVal
        THEN \* lru_cache.py, lines 147-150, then `if cached_data:` (line 38)
             [st |-> g.st, val |-> IF g.val = EmptyList THEN NoneVal ELSE g.val,
              exc |-> NoExc]
        ELSE [st |-> g.st, val |-> NoneVal, exc |-> SelfL2Get(key).exc]

\* POICache.set, lines 49-63, at clock t: lru_cache.py line 173 writes L1, line 176
\* raises, and the except clause of lines 61-63 returns False
PoiCacheSet(s, store, key, data, t) ==
    LET r == LRUSet(s, key, data, NoTtl, t)
    IN  IF r.exc # NoExc
        THEN [st |-> r.st, l2 |-> store, val |-> PyFalse, exc |-> NoExc]
        ELSE IF SelfL2Set(key, data).exc # NoExc
        THEN [st |-> r.st, l2 |-> store, val |-> PyFalse, exc |-> NoExc]
        ELSE [st |-> r.st, l2 |-> store, val |-> PyTrue, exc |-> NoExc]

\* the body of search_poi, lines 73-147, at clock t: every error raised inside it is
\* caught by lines 145-147 and an empty list is returned
SearchPoiBody(s, store, key, succeed_at, found, t) ==
    LET c == PoiCacheGet(s, key, t)
        u == WithRetry(succeed_at)
    IN  IF c.exc # NoExc
        THEN [st |-> c.st, val |-> EmptyList, exc |-> NoExc, upstream |-> 0]
        ELSE IF c.val # NoneVal
        THEN [st |-> c.st, val |-> c.val, exc |-> NoExc, upstream |-> 0]
        ELSE IF u.exc # NoExc
        THEN [st |-> c.st, val |-> EmptyList, exc |-> NoExc, upstream |-> u.calls]
        ELSE [st |-> IF found # EmptyList
                     THEN PoiCacheSet(c.st, store, key, found, t).st
                     ELSE c.st,
              val |-> found, exc |-> NoExc, upstream |-> u.calls]

\* the body of get_weather, lines 179-268: the L1 of the weather cache is empty, and
\* WeatherCache.get, called by MultiLevelCache.get as its own L2 (line 153) with the
\* key as city, calls MultiLevelCache.get again, without end: RecursionError, caught by
\* lines 266-268
GetWeatherBody(s) == [st |-> s, val |-> EmptyList, exc |-> NoExc, upstream |-> 0]

\* the body of plan_route, lines 299-380: no cache; the error of the retried call is
\* caught by lines 378-380 and an empty dict is returned
PlanRouteBody(s, succeed_at, found) ==
    LET u == WithRetry(succeed_at)
    IN  IF u.exc # NoExc
        THEN [st |-> s, val |-> EmptyDict, exc |-> NoExc, upstream |-> u.calls]
        ELSE [st |-> s, val |-> found, exc |-> NoExc, upstream |-> u.calls]

AmapOps == {"search_poi", "get_weather", "plan_route"}

\* the name given to @circuit_breaker, lines 60, 168 and 282
BreakerOf(op) ==
    CASE op = "search_poi" -> "amap_poi"
      [] op = "get_weather" -> "amap_weather"
      [] OTHER -> "amap_route"

AmapRec(op, key, succeed_at, found, val, exc, upstream) ==
    [full |-> amap.full, op |-> op, key |-> key, succeed_at |-> succeed_at,
     found |-> found, val |-> val, exc |-> exc, upstream |-> upstream]

\* the process is started with a Settings that has the missing fields
AmapConfigure ==
    /\ amap = NoAmap
    /\ breakers = [n \in {} |-> 0]
    /\ cache = <<>>
    /\ amap' = [amap EXCEPT !.full = TRUE]
    /\ UNCHANGED <<lruVars, now, histVars, concVars, mlVars, cbVars, retry, llmkeys,
                   redisVars, adm, lateVars>>

\* a call of a method of AmapService through the wrapper of @circuit_breaker
\* (circuit_breaker_manager.py, lines 150-162); body is what the method does once the
\* breaker has admitted the call
AmapCall(op, key, succeed_at, found, body) ==
    LET name == BreakerOf(op)
        g == GetBreaker(breakers, name)
        a == BeforeCall(g.bs[name], now)
    IN  /\ amap.op = "none"
        /\ IF ~amap.full
           THEN \* AmapService.__init__, lines 54-58: settings.amap_retry_max_attempts
                /\ amap' = AmapRec(op, key, succeed_at, found, NoneVal, "AttributeError", 0)
                /\ UNCHANGED <<lruVars, breakers>>
           ELSE IF g.exc # NoExc
           THEN /\ amap' = AmapRec(op, key, succeed_at, found, NoneVal, g.exc, 0)
                /\ UNCHANGED <<lruVars, breakers>>
           ELSE IF ~a.admit
           THEN /\ amap' = AmapRec(op, key, succeed_at, found, NoneVal,
                                   WrapperOnError(CBError).res, 0)
                /\ breakers' = g.bs
                /\ UNCHANGED lruVars
           ELSE /\ amap' = AmapRec(op, key, succeed_at, found, body.val,
                                   IF body.exc = NoExc THEN NoExc
                                   ELSE WrapperOnError(body.exc).res,
                                   body.upstream)
                /\ breakers' = PutBreaker(g.bs, name,
                                   IF BreakerSees(IF body.exc = NoExc THEN Ok ELSE FuncError) = Ok
                                   THEN OnSuccess(a.b, a.probe)
                                   ELSE OnFailure(a.b, a.probe, now))
                /\ SetL1(body.st)
        /\ UNCHANGED <<now, histVars, concVars, mlVars, th, streak, probeFailedAt, retry,
                       llmkeys, redisVars, adm, lateVars>>

SearchPoi(city, keywords, citylimit, succeed_at, found) ==
    /\ hits + misses < MaxPoiGets
    /\ AmapCall("search_poi", PoiKey(city, keywords, citylimit), succeed_at, found,
                SearchPoiBody(L1, l2, PoiKey(city, keywords, citylimit), succeed_at, found,
                              now))

GetWeather(city) == AmapCall("get_weather", NoneVal, 0, NoneVal, GetWeatherBody(L1))

PlanRoute(succeed_at, found) ==
    AmapCall("plan_route", NoneVal, succeed_at, found, PlanRouteBody(L1, succeed_at, found))

\* get_poi_cache().set(city, keywords, citylimit, pois)
PoiSet(city, keywords, citylimit, pois) ==
    LET key == PoiKey(city, keywords, citylimit)
        r == PoiCacheSet(L1, l2, key, pois, now)
    IN  /\ amap.op = "none"
        /\ IF ~amap.full
           THEN \* POICache.__init__, line 20: settings.cache_poi_l1_max_size
                /\ amap' = AmapRec("poi_set", key, 0, pois, NoneVal, "AttributeError", 0)
                /\ UNCHANGED <<lruVars, l2>>
           ELSE /\ amap' = AmapRec("poi_set", key, 0, pois, r.val, r.exc, 0)
                /\ SetL1(r.st)
                /\ l2' = r.l2
        /\ UNCHANGED <<now, histVars, concVars, l2_cache, l3_fetcher, mlret, cbVars, retry,
                       llmkeys, redisVars, adm, lateVars>>

\* the caller has the answer
AmapReturn ==
    /\ amap.op # "none"
    /\ amap' = [NoAmap EXCEPT !.full = amap.full]
    /\ UNCHANGED <<lruVars, now, histVars, concVars, mlVars, cbVars, retry, llmkeys,
                   redisVars, adm, lateVars>>

NextAmap ==
    \/ AmapConfigure
    \/ \E city \in Cities, keywords \in KeywordsArgs, citylimit \in BOOLEAN,
          succeed_at \in 1..(StopAfterAttempt + 1), found \in PoiLists :
              SearchPoi(city, keywords, citylimit, succeed_at, found)
    \/ \E city \in Cities : GetWeather(city)
    \/ \E succeed_at \in 1..(StopAfterAttempt + 1), found \in Vals : PlanRoute(succeed_at, found)
    \/ \E city \in Cities, keywords \in KeywordsArgs, citylimit \in BOOLEAN, pois \in PoiLists :
          PoiSet(city, keywords, citylimit, pois)
    \/ AmapReturn

SpecAmap == InitStore /\ [][NextAmap]_vars

\* this step is a call of op
AmapStep(op) == amap.op = "none" /\ amap'.op = op

\* the failures that the breaker of a name has counted (none before it is created)
FailCount(bs, name) == IF name \in DOMAIN bs THEN bs[name].fail_counter ELSE 0

\* the breaker of a name is Closed, as it also is when the first call creates it
ClosedOrNew(bs, name) == name \in DOMAIN bs => bs[name].state = "closed"

\* C28: when search_poi, get_weather or plan_route is called with the breaker of its
\* dependency Closed and every retry attempt against the upstream fails, the breaker
\* counts exactly one failure more after the call.  Stated for a process whose
\* Settings has every field the code reads.
C28_OneFailurePerCall ==
    [][\A op \in AmapOps :
          (/\ AmapStep(op)
           /\ amap.full
           /\ ClosedOrNew(breakers, BreakerOf(op))
           /\ amap'.succeed_at > StopAfterAttempt
           /\ amap'.upstream = StopAfterAttempt)
              => /\ BreakerOf(op) \in DOMAIN breakers'
                 /\ FailCount(breakers', BreakerOf(op)) = FailCount(breakers, BreakerOf(op)) + 1]_vars

\* C29: when search_poi is called for a query whose key is in neither L1 nor the Redis
\* store, with the breaker Closed, the upstream is invoked, and if it answers within
\* the retry attempts with a non-empty result, that result is returned and is stored
\* in the POI cache under the key.  Stated for a process whose Settings has every
\* field the code reads, and for an L1 of capacity >= 1.
C29_MissCallsUpstream ==
    [][(/\ AmapStep("search_poi")
        /\ amap.full
        /\ max_size >= 1
        /\ amap'.key \notin CacheKeys(cache)
        /\ ~RedisHas(l2, amap'.key)
        /\ ClosedOrNew(breakers, "amap_poi"))
           => /\ amap'.upstream >= 1
              /\ (amap'.succeed_at <= StopAfterAttempt /\ amap'.found # EmptyList)
                     => /\ amap'.exc = NoExc
                        /\ amap'.val = amap'.found
                        /\ amap'.key \in CacheKeys(cache')
                        /\ Lookup(cache', amap'.key) = amap'.found]_vars

\* C30: with the Redis store available, POICache.set(city, keywords, citylimit, pois)
\* returns True and leaves the entry under the derived key both in L1 and in the Redis
\* store.  Stated for a process whose Settings has every field the code reads, and for
\* an L1 of capacity >= 1.
C30_WritesBothLevels ==
    [][(/\ AmapStep("poi_set")
        /\ amap.full
        /\ max_size >= 1
        /\ redis_up)
           => /\ amap'.exc = NoExc
              /\ amap'.val = PyTrue
              /\ amap'.key \in CacheKeys(cache')
              /\ Lookup(cache', amap'.key) = amap'.found
              /\ RedisHas(l2', amap'.key)
              /\ l2'[amap'.key] = amap'.found]_vars

(***************************************************************************)
(* WeatherCache, weather_cache.py lines 10-56, over its own MultiLevelCache *)
(* whose L2 is the WeatherCache itself (line 24).  The L1 is the LRUCache   *)
(* of this module; a call advances one nested call at a time.              *)
(***************************************************************************)
WeatherTypes == {"current", "forecast"}

\* _generate_key, lines 26-28
WeatherKey(city, weather_type) == "weather:" \o weather_type \o ":" \o city

\* the key of the nested call that is running
WxKey == wx.keys[Len(wx.keys)]

WxFront == SubSeq(wx.keys, 1, Len(wx.keys) - 1)

\* a call nested depth deep can still make a nested call: nothing in lines 30-41 or in
\* lru_cache.py lines 152-153 limits the nesting, the interpreter does
WxReenters(depth) == depth < RecursionLimit

\* weather_cache.get(city, weather_type): lines 30-32, up to the call of line 35
WxGet(city, weather_type) ==
    /\ wx.pc = "idle"
    /\ hits + misses < MaxWxGets
    /\ IF ~amap.full
       THEN \* WeatherCache.__init__, line 19: settings.cache_weather_l1_max_size
            wx' = [NoWx EXCEPT !.pc = "done", !.op = "get", !.exc = "AttributeError"]
       ELSE wx' = [NoWx EXCEPT !.pc = "get", !.op = "get",
                               !.keys = <<WeatherKey(city, weather_type)>>]
    /\ UNCHANGED <<lruVars, now, histVars, concVars, mlVars, cbVars, retry, llmkeys,
                   redisVars, adm, amap, mt, reg>>

\* MultiLevelCache.get of the innermost call, lru_cache.py lines 146-153: the L1
\* lookup, and on a miss self.l2_cache.get(key), which is WeatherCache.get(city=key)
\* with weather_type left at its default
WxGetLevel ==
    LET g == LRUGet(L1, WxKey, now, now)
    IN  /\ wx.pc = "get"
        /\ SetL1(g.st)
        /\ IF g.val # NoneVal
           THEN \* line 150, then weather_cache.py lines 37-39
                wx' = [wx EXCEPT !.pc = IF Len(wx.keys) = 1 THEN "done" ELSE "up",
                                 !.keys = WxFront, !.val = g.val]
           ELSE IF WxReenters(Len(wx.keys))
           THEN wx' = [wx EXCEPT !.keys = Append(@, WeatherKey(WxKey, "current"))]
           ELSE \* the interpreter's recursion limit; no caller on the stack catches it
                wx' = [wx EXCEPT !.pc = "done", !.exc = "RecursionError"]
        /\ UNCHANGED <<now, histVars, concVars, mlVars, cbVars, retry, llmkeys, redisVars,
                       adm, amap, mt, reg>>

\* lru_cache.py lines 154-157 in the caller of a nested call that returned a value:
\* the value is written to L1 under the caller's key and returned
WxGetUp ==
    LET r == LRUSet(L1, WxKey, wx.val, NoTtl, now)
    IN  /\ wx.pc = "up"
        /\ SetL1(r.st)
        /\ wx' = IF r.exc # NoExc
                 THEN [wx EXCEPT !.pc = "done", !.val = NoneVal, !.exc = r.exc]
                 ELSE [wx EXCEPT !.pc = IF Len(wx.keys) = 1 THEN "done" ELSE "up",
                                 !.keys = WxFront]
        /\ UNCHANGED <<now, histVars, concVars, mlVars, cbVars, retry, llmkeys, redisVars,
                       adm, amap, mt, reg>>

\* weather_cache.set(city, weather_data, weather_type): lines 43-47
WxSet(city, weather_type, weather_data) ==
    /\ wx.pc = "idle"
    /\ IF ~amap.full
       THEN wx' = [NoWx EXCEPT !.pc = "done", !.op = "set", !.exc = "AttributeError"]
       ELSE wx' = [NoWx EXCEPT !.pc = "set", !.op = "set", !.value = weather_data,
                               !.keys = <<WeatherKey(city, weather_type)>>]
    /\ UNCHANGED <<lruVars, now, histVars, concVars, mlVars, cbVars, retry, llmkeys,
                   redisVars, adm, amap, mt, reg>>

\* MultiLevelCache.set of the innermost call, lru_cache.py lines 173-176: the L1 write,
\* then self.l2_cache.set(key, value, ttl=l2_ttl), which is WeatherCache.set(city=key,
\* weather_data=value); the error that ends the nesting is caught by lines 54-56 of a
\* nested call, and every caller above it returns False (lru_cache.py lines 176-179)
WxSetLevel ==
    LET r == LRUSet(L1, WxKey, wx.value, NoTtl, now)
    IN  /\ wx.pc = "set"
        /\ SetL1(r.st)
        /\ IF r.exc # NoExc
           THEN wx' = [wx EXCEPT !.pc = "done", !.val = PyFalse]
           ELSE IF WxReenters(Len(wx.keys))
           THEN wx' = [wx EXCEPT !.keys = Append(@, WeatherKey(WxKey, "current"))]
           ELSE wx' = [wx EXCEPT !.pc = "done", !.val = PyFalse]
        /\ UNCHANGED <<now, histVars, concVars, mlVars, cbVars, retry, llmkeys, redisVars,
                       adm, amap, mt, reg>>

\* the caller has the answer
WxReturn ==
    /\ wx.pc = "done"
    /\ wx' = NoWx
    /\ UNCHANGED <<lruVars, now, histVars, concVars, mlVars, cbVars, retry, llmkeys,
                   redisVars, adm, amap, mt, reg>>

WxTick ==
    /\ now < MaxTimeWx
    /\ TickCall
    /\ UNCHANGED <<histVars, notLRU>>

NextWeather ==
    \/ AmapConfigure
    \/ \E city \in Cities, weather_type \in WeatherTypes : WxGet(city, weather_type)
    \/ WxGetLevel
    \/ WxGetUp
    \/ \E city \in Cities, weather_type \in WeatherTypes, weather_data \in Vals :
          WxSet(city, weather_type, weather_data)
    \/ WxSetLevel
    \/ WxReturn
    \/ WxTick

SpecWeather == InitTtl /\ [][NextWeather]_vars

\* C31: every WeatherCache.get on a constructed WeatherCache ends by returning a
\* value or None, not by exhausting the interpreter's stack of nested calls
C31_GetTerminates ==
    (wx.pc = "done" /\ wx.op = "get" /\ wx.exc # "AttributeError") => wx.exc = NoExc

(***************************************************************************)
(* SpecPerKey: one caller of an LRUCache constructed without a default TTL *)
(* (ttl=None, line 15) that passes a TTL of its own to set.                *)
(***************************************************************************)
NextPerKey ==
    \/ \E key \in TwoKeys, value \in Vals, T \in TtlArgs : Set(key, value, T)
    \/ \E key \in TwoKeys : Get(key, 0)
    \/ Tick

SpecPerKey == InitStore /\ [][NextPerKey]_vars

\* C32: on an LRUCache without a default TTL and with room for an entry, a set that
\* has returned (with or without a TTL of its own) returned True and raised nothing
C32_SetWithTtlSucceeds ==
    (ret.op = "set" /\ ttl = NoTtl /\ max_size >= 1) => (ret.exc = NoExc /\ ret.val = PyTrue)

(***************************************************************************)
(* SpecMulti: threads calling one MultiLevelCache concurrently, lines      *)
(* 144-190.  MultiLevelCache takes no lock of its own: each call of a      *)
(* method of the L1 LRUCache runs under that cache's lock (`with           *)
(* self.lock`) and is one step, leaving the lock is the next step, and     *)
(* each L2 call and each fetcher call is a step.  The L2 store is the      *)
(* MockL2Cache, and the fetcher returns FetchedVal(key).  History:         *)
(* mt.deleted holds the keys whose delete has returned with no set(key)    *)
(* and no fetch of key under way or made since that delete was called      *)
(* (run[t].clean while it runs); run[t].clean of a set(key) or get(key)    *)
(* says that no call other than a call of the same method for key has run  *)
(* at the same time; mt.fetches counts the calls of the fetcher;           *)
(* run[t].absent says that neither level held the key when thread t        *)
(* called.                                                                 *)
(***************************************************************************)
MtKeys == {"k1"}

\* what the L3 fetcher returns for key
FetchedVal(key) == "f:" \o key

MtIdle == \A t \in Threads : mt.run[t].pc = "idle"

\* thread u is inside a set(key) or has a fetch of key under way
MtWrites(u, key) ==
    /\ mt.run[u].key = key
    /\ mt.run[u].pc # "idle"
    /\ \/ mt.run[u].op = "set"
       \/ mt.run[u].pc \in {"l3", "l3_l1", "l3_l2"}
       \/ mt.run[u].next \in {"l3", "l3_l1", "l3_l2"}

\* the history m after a step of a set(key) or of a fetch of key
MtWrote(m, key) ==
    [m EXCEPT !.deleted = @ \ {key},
              !.run = [u \in Threads |->
                          IF @[u].op = "delete" /\ @[u].key = key
                          THEN [@[u] EXCEPT !.clean = FALSE] ELSE @[u]]]

\* the delete of thread t has returned: its key counts as deleted
MtDeleted(m, t) ==
    IF m.run[t].clean /\ \A u \in Threads \ {t} : ~MtWrites(u, m.run[t].key)
    THEN [m EXCEPT !.deleted = @ \cup {m.run[t].key}]
    ELSE m

\* the history m after thread t has made its call: the set and get calls of another
\* method that are under way, or not yet handed to their caller, have company
MtDisturbed(m, t) ==
    [m EXCEPT !.run = [u \in Threads |->
                          IF u # t /\ @[u].op \in {"set", "get"} /\ @[u].op # m.run[t].op
                          THEN [@[u] EXCEPT !.clean = FALSE] ELSE @[u]]]

\* run[t].clean of the call op(key) that thread t makes now
MtStartsClean(t, op, key) ==
    IF op = "delete" THEN \A u \in Threads \ {t} : ~MtWrites(u, key)
    ELSE \A u \in Threads \ {t} :
            \/ mt.run[u].pc = "idle"
            \/ mt.run[u].op = op /\ mt.run[u].key = key /\ mt.run[u].clean

\* the steps of thread t change the L1, the lock, the L2 store and mt
MtFrame ==
    UNCHANGED <<now, histVars, pc, call, l2_cache, l3_fetcher, mlret, cbVars, retry, llmkeys,
                redisVars, adm, amap, wx, reg>>

\* thread t calls get(key), set(key, value) or delete(key)
MtBegin(t, op, key, value) ==
    /\ mt.run[t].pc = "idle"
    /\ mt.ops < MaxMtOps
    /\ LET m == [mt EXCEPT !.ops = @ + 1,
                            !.run[t] = [NoRun EXCEPT
                                           !.pc = op \o "_l1", !.op = op, !.key = key,
                                           !.value = value,
                                           !.absent = ~InL1(key) /\ InL2(key) = NoneVal,
                                           !.clean = MtStartsClean(t, op, key)]]
       IN  mt' = IF op = "set" THEN MtWrote(MtDisturbed(m, t), key) ELSE MtDisturbed(m, t)
    /\ UNCHANGED <<lruVars, lock, l2>>
    /\ MtFrame

\* where a call goes on after its L1 step: the stage that follows, or its return
MtGoOn(t, stage, val, exc) ==
    [mt.run[t] EXCEPT !.pc = "unlock", !.next = IF exc # NoExc THEN "done" ELSE stage,
                      !.val = val, !.exc = exc]

\* a get that never asks the fetcher (without lines 159-166)
MtAfterL2MissNoFetch == "done"

\* after the L2 miss of a get, lines 159 and 168
MtAfterL2Miss == IF l3_fetcher # NoneVal THEN "l3" ELSE "done"

\* after the L1 miss of a get, line 152
MtAfterL1Miss == IF l2_cache # NoneVal THEN "get_l2" ELSE MtAfterL2Miss

\* LRUCache.get under the lock, line 146: a hit is returned (lines 147-150)
MtGetL1(t) ==
    LET c == mt.run[t]
        r == LRUGet(L1, c.key, now, now)
    IN  /\ c.pc = "get_l1"
        /\ lock = Free
        /\ lock' = t
        /\ SetL1(r.st)
        /\ mt' = [mt EXCEPT !.run[t] = IF r.val # NoneVal
                                       THEN MtGoOn(t, "done", r.val, NoExc)
                                       ELSE MtGoOn(t, MtAfterL1Miss, NoneVal, NoExc)]
        /\ UNCHANGED l2
        /\ MtFrame

\* a method of the LRUCache that returns without leaving `with self.lock`
MtUnlockKeeps(t) == t

\* the end of `with self.lock` of the LRUCache method that thread t is in
MtUnlock(t) == Free

MtLeaveL1(t) ==
    /\ mt.run[t].pc = "unlock"
    /\ lock = t
    /\ lock' = MtUnlock(t)
    /\ LET m == [mt EXCEPT !.run[t].pc = mt.run[t].next, !.run[t].next = "idle"]
       IN  mt' = IF mt.run[t].op = "delete" /\ mt.run[t].next = "done"
                 THEN MtDeleted(m, t) ELSE m
    /\ UNCHANGED <<lruVars, l2>>
    /\ MtFrame

\* self.l2_cache.get(key), lines 152-154
MtGetL2(t) ==
    LET c == mt.run[t]
        v == L2Get(l2, c.key).val
    IN  /\ c.pc = "get_l2"
        /\ mt' = [mt EXCEPT !.run[t] =
                     IF v # NoneVal
                     THEN [c EXCEPT !.pc = "promote", !.value = v]
                     ELSE [c EXCEPT !.pc = MtAfterL2Miss, !.val = NoneVal]]
        /\ UNCHANGED <<lruVars, lock, l2>>
        /\ MtFrame

\* self.l1_cache.set(key, value) under the lock, line 156, then return value
MtPromote(t) ==
    LET c == mt.run[t]
        r == LRUSet(L1, c.key, c.value, NoTtl, now)
    IN  /\ c.pc = "promote"
        /\ lock = Free
        /\ lock' = t
        /\ SetL1(r.st)
        /\ mt' = [mt EXCEPT !.run[t] = MtGoOn(t, "done", IF r.exc = NoExc THEN c.value
                                                          ELSE NoneVal, r.exc)]
        /\ UNCHANGED l2
        /\ MtFrame

\* value = self.l3_fetcher(key), line 161
MtFetch(t) ==
    LET c == mt.run[t]
    IN  /\ c.pc = "l3"
        /\ mt' = MtWrote([mt EXCEPT !.fetches = @ + 1,
                                    !.run[t] = [c EXCEPT !.pc = "l3_l1",
                                                         !.value = FetchedVal(c.key)]], c.key)
        /\ UNCHANGED <<lruVars, lock, l2>>
        /\ MtFrame

\* self.l1_cache.set(key, value) under the lock, line 163
MtFetchedL1(t) ==
    LET c == mt.run[t]
        r == LRUSet(L1, c.key, c.value, NoTtl, now)
    IN  /\ c.pc = "l3_l1"
        /\ lock = Free
        /\ lock' = t
        /\ SetL1(r.st)
        /\ mt' = MtWrote([mt EXCEPT !.run[t] =
                              IF l2_cache # NoneVal
                              THEN MtGoOn(t, "l3_l2", NoneVal, r.exc)
                              ELSE MtGoOn(t, "done", IF r.exc = NoExc THEN c.value
                                                     ELSE NoneVal, r.exc)], c.key)
        /\ UNCHANGED l2
        /\ MtFrame

\* self.l2_cache.set(key, value), line 165, then return value (line 166)
MtFetchedL2(t) ==
    LET c == mt.run[t]
    IN  /\ c.pc = "l3_l2"
        /\ l2' = L2Set(l2, c.key, c.value).st
        /\ mt' = MtWrote([mt EXCEPT !.run[t] = [c EXCEPT !.pc = "done", !.val = c.value]],
                          c.key)
        /\ UNCHANGED <<lruVars, lock>>
        /\ MtFrame

\* self.l1_cache.set(key, value, ttl=l1_ttl) under the lock, line 173
MtSetL1(t) ==
    LET c == mt.run[t]
        r == LRUSet(L1, c.key, c.value, NoTtl, now)
    IN  /\ c.pc = "set_l1"
        /\ lock = Free
        /\ lock' = t
        /\ SetL1(r.st)
        /\ mt' = MtWrote([mt EXCEPT !.run[t] =
                              IF l2_cache # NoneVal
                              THEN MtGoOn(t, "set_l2", NoneVal, r.exc)
                              ELSE MtGoOn(t, "done", IF r.exc = NoExc THEN PyTrue
                                                     ELSE NoneVal, r.exc)], c.key)
        /\ UNCHANGED l2
        /\ MtFrame

\* self.l2_cache.set(key, value, ttl=l2_ttl), lines 175-179
MtSetL2(t) ==
    LET c == mt.run[t]
        w == L2Set(l2, c.key, c.value)
    IN  /\ c.pc = "set_l2"
        /\ l2' = w.st
        /\ mt' = MtWrote([mt EXCEPT !.run[t] = [c EXCEPT !.pc = "done", !.val = w.val]],
                          c.key)
        /\ UNCHANGED <<lruVars, lock>>
        /\ MtFrame

\* self.l1_cache.delete(key) under the lock, line 184
MtDeleteL1(t) ==
    LET c == mt.run[t]
        r == LRUDelete(L1, c.key)
    IN  /\ c.pc = "delete_l1"
        /\ lock = Free
        /\ lock' = t
        /\ SetL1(r.st)
        /\ mt' = [mt EXCEPT !.run[t] = IF l2_cache # NoneVal
                                       THEN MtGoOn(t, "delete_l2", NoneVal, NoExc)
                                       ELSE MtGoOn(t, "done", PyTrue, NoExc)]
        /\ UNCHANGED l2
        /\ MtFrame

\* self.l2_cache.delete(key), lines 186-190: delete has returned
MtDeleteL2(t) ==
    LET c == mt.run[t]
        d == L2Delete(l2, c.key)
    IN  /\ c.pc = "delete_l2"
        /\ l2' = d.st
        /\ mt' = MtDeleted([mt EXCEPT !.run[t] = [c EXCEPT !.pc = "done", !.val = d.val]], t)
        /\ UNCHANGED <<lruVars, lock>>
        /\ MtFrame

\* the caller of thread t has the answer
MtReturn(t) ==
    /\ mt.run[t].pc = "done"
    /\ mt' = [mt EXCEPT !.run[t] = NoRun]
    /\ UNCHANGED <<lruVars, lock, l2>>
    /\ MtFrame

\* set_l2_cache and set_l3_fetcher, called while no call is under way
MtSetL2Cache == MtIdle /\ SetL2Cache
MtSetL3Fetcher == MtIdle /\ SetL3Fetcher

NextMulti ==
    \/ MtSetL2Cache
    \/ MtSetL3Fetcher
    \/ \E t \in Threads, key \in MtKeys :
          \/ MtBegin(t, "get", key, NoneVal)
          \/ \E value \in Vals : MtBegin(t, "set", key, value)
          \/ MtBegin(t, "delete", key, NoneVal)
    \/ \E t \in Threads :
          \/ MtGetL1(t)
          \/ MtLeaveL1(t)
          \/ MtGetL2(t)
          \/ MtPromote(t)
          \/ MtFetch(t)
          \/ MtFetchedL1(t)
          \/ MtFetchedL2(t)
          \/ MtSetL1(t)
          \/ MtSetL2(t)
          \/ MtDeleteL1(t)
          \/ MtDeleteL2(t)
          \/ MtReturn(t)

SpecMulti == InitStore /\ [][NextMulti]_vars

\* C33: a key whose delete has returned, with no set of it and no fetch of it under
\* way or made since, is held by neither L1 nor L2
C33_DeletedStaysGone ==
    \A key \in mt.deleted : key \notin CacheKeys(cache) /\ l2[key] = NoneVal

\* both threads have returned from a call op(key) and no caller has taken the answer yet
MtBothDone(op, key) ==
    \A t \in Threads : /\ mt.run[t].pc = "done"
                       /\ mt.run[t].op = op
                       /\ mt.run[t].key = key

\* C34: when two set(key, ...) calls that ran with no other call beside them have both
\* returned True on a cache with an L2, L1 and L2 hold the same value for key
C34_SetsAgree ==
    \A key \in MtKeys :
        (/\ MtBothDone("set", key)
         /\ l2_cache # NoneVal
         /\ \A t \in Threads : mt.run[t].clean /\ mt.run[t].val = PyTrue)
        => (key \in CacheKeys(cache) /\ Lookup(cache, key) = l2[key])

\* C36: two get(key) calls made while neither level held key, with no other call
\* beside them, on a cache with a fetcher and room for an entry, both return the value
\* the fetcher gives for key
C36_BothGetFetched ==
    \A key \in MtKeys :
        (/\ MtBothDone("get", key)
         /\ l3_fetcher # NoneVal
         /\ max_size >= 1
         /\ \A t \in Threads : mt.run[t].absent /\ mt.run[t].clean)
        => \A t \in Threads : mt.run[t].val = FetchedVal(key) /\ mt.run[t].exc = NoExc

\* the only two calls made are two get(key) that neither level could answer, and the
\* fetcher has been invoked twice
C36_Witness ==
    \E key \in MtKeys :
        /\ MtBothDone("get", key)
        /\ l3_fetcher # NoneVal
        /\ max_size >= 1
        /\ \A t \in Threads : /\ mt.run[t].absent
                               /\ mt.run[t].clean
                               /\ mt.run[t].val = FetchedVal(key)
        /\ mt.ops = 2
        /\ mt.fetches = 2

\* thread t is about to call the L2 store or the fetcher
MtAtL2OrL3(t) == mt.run[t].pc \in {"get_l2", "l3", "l3_l2", "set_l2", "delete_l2"}

\* C40: a thread that is about to call the L2 store or the L3 fetcher does not hold the
\* lock of the L1 cache
C40_NoLockAcrossLevels == \A t \in Threads : MtAtL2OrL3(t) => lock # t

\* a thread is about to call the fetcher after its L1 and L2 lookups while the other
\* thread is inside a method of the L1 cache, holding its lock
C40_Witness ==
    \E t \in Threads, u \in Threads :
        /\ t # u
        /\ mt.run[t].pc = "l3"
        /\ lock = u
        /\ mt.run[u].pc = "unlock"

(***************************************************************************)
(* SpecRegistry: threads using one CircuitBreakerManager concurrently,     *)
(* circuit_breaker_manager.py lines 16-28, 65-110 and 150-162.  A breaker  *)
(* is an object: reg.inst holds every breaker created and reg.byName the   *)
(* one stored under each name.  get_breaker takes no lock, so its test     *)
(* (line 26), _create_breaker, the store (line 27) and the read of line    *)
(* 28 are steps of their own.  History: reg.stale says that a failure was  *)
(* recorded on a breaker that was not the one stored under its name.       *)
(***************************************************************************)
RgOps == {"call", "state"}

RgFrame ==
    UNCHANGED <<lruVars, now, histVars, concVars, mlVars, cbVars, retry, llmkeys, redisVars,
                adm, amap, wx, mt>>

RgPut(t, r) == [reg EXCEPT !.run[t] = r]

\* thread t calls a function wrapped by @circuit_breaker(name) (op "call", lines
\* 150-152) or get_breaker_state(name) (op "state", line 75): get_breaker, line 26
RgBegin(t, op, name) ==
    /\ reg.run[t].pc = "idle"
    /\ reg.calls < MaxRegCalls
    /\ reg' = [reg EXCEPT !.calls = @ + 1,
                          !.run[t] = [NoRg EXCEPT !.op = op, !.name = name,
                                                  !.pc = IF reg.byName[name] = 0
                                                         THEN "create" ELSE "read"]]
    /\ RgFrame

\* _create_breaker(name), the right-hand side of line 27
RgCreate(t) ==
    LET c == reg.run[t]
    IN  /\ c.pc = "create"
        /\ reg' = IF CreateRaises(c.name)
                  THEN RgPut(t, [c EXCEPT !.pc = "done", !.res = "AttributeError"])
                  ELSE [reg EXCEPT !.inst = Append(@, CreateBreaker(c.name)),
                                   !.run[t] = [c EXCEPT !.pc = "store",
                                                        !.made = Len(reg.inst) + 1]]
        /\ RgFrame

\* self._breakers[name] = ..., line 27
RgStore(t) ==
    LET c == reg.run[t]
    IN  /\ c.pc = "store"
        /\ reg' = [reg EXCEPT !.byName[c.name] = c.made, !.run[t].pc = "read"]
        /\ RgFrame

\* return self._breakers[name], line 28
RgRead(t) ==
    LET c == reg.run[t]
    IN  /\ c.pc = "read"
        /\ reg' = RgPut(t, [c EXCEPT !.pc = c.op, !.held = reg.byName[c.name]])
        /\ RgFrame

\* breaker.call(func), lines 154-162, on the breaker that get_breaker returned: func
\* returns (Ok) or raises (FuncError)
RgCall(t, outcome) ==
    LET c == reg.run[t]
        a == BeforeCall(reg.inst[c.held], now)
    IN  /\ c.pc = "call"
        /\ reg' = IF ~a.admit
                  THEN RgPut(t, [c EXCEPT !.pc = "done", !.res = WrapperOnError(CBError).res])
                  ELSE [reg EXCEPT
                           !.inst[c.held] = IF BreakerSees(outcome) = Ok
                                            THEN OnSuccess(a.b, a.probe)
                                            ELSE OnFailure(a.b, a.probe, now),
                           !.stale = @ \/ (outcome = FuncError /\ reg.byName[c.name] # c.held),
                           !.run[t] = [c EXCEPT !.pc = "done",
                                                !.res = IF outcome = Ok THEN Ok
                                                        ELSE WrapperOnError(outcome).res]]
        /\ RgFrame

\* get_breaker_state, lines 76-81: the counters of the breaker are read; breaker.open
\* (line 93) is read, not called, and a bound method is true, so the name is "open"
RgState(t) ==
    LET c == reg.run[t]
    IN  /\ c.pc = "state"
        /\ reg' = RgPut(t, [c EXCEPT !.pc = "done", !.res = "open"])
        /\ RgFrame

\* get_all_breakers_state, lines 100-110: get_breaker_state of every name of the
\* registry; each name is found by line 26
RgAllStates(t) ==
    /\ reg.run[t].pc = "idle"
    /\ reg.calls < MaxRegCalls
    /\ reg' = [reg EXCEPT !.calls = @ + 1,
                          !.run[t] = [NoRg EXCEPT !.pc = "done", !.op = "all"]]
    /\ RgFrame

\* the caller of thread t has the answer
RgReturn(t) ==
    /\ reg.run[t].pc = "done"
    /\ reg' = RgPut(t, NoRg)
    /\ RgFrame

NextRegistry ==
    \/ AmapConfigure
    \/ \E t \in Threads, op \in RgOps, name \in Names : RgBegin(t, op, name)
    \/ \E t \in Threads :
          \/ RgCreate(t)
          \/ RgStore(t)
          \/ RgRead(t)
          \/ \E outcome \in {Ok, FuncError} : RgCall(t, outcome)
          \/ RgState(t)
          \/ RgAllStates(t)
          \/ RgReturn(t)

SpecRegistry == InitBreakers /\ [][NextRegistry]_vars

\* thread t has been given a breaker by get_breaker
RgHolds(t) == reg.run[t].held # 0

\* C35: the threads that have been given a breaker for the same name have been given
\* the same breaker, and no failure has been recorded on a breaker that was not the
\* one stored under its name
C35_OneBreakerPerName ==
    /\ \A t \in Threads, u \in Threads :
          (RgHolds(t) /\ RgHolds(u) /\ reg.run[t].name = reg.run[u].name)
          => reg.run[t].held = reg.run[u].held
    /\ ~reg.stale

\* this step is a step of a get_breaker_state or get_all_breakers_state call
RgStateStep ==
    \E t \in Threads : /\ reg'.run[t] # reg.run[t]
                       /\ reg'.run[t].op \in {"state", "all"}

\* C38: no step of get_breaker_state or get_all_breakers_state adds a breaker to the
\* registry or changes a breaker
C38_StateIsReadOnly ==
    [][RgStateStep => (reg'.byName = reg.byName /\ reg'.inst = reg.inst)]_vars

(***************************************************************************)
(* SpecKeyFields: keys derived in the three domains, from fields that may  *)
(* contain the separator.  llmkeys holds the requests with their keys.     *)
(***************************************************************************)
FieldCities == {"a", "b", "a:b"}
FieldKeywords == {"c", "b:c"}
FieldWeatherTypes == {"current", "current:a"}

\* POICache.get: a key is derived for (city, keywords, citylimit)
DerivePoiKey(city, keywords, citylimit) ==
    /\ Len(llmkeys) < 2
    /\ llmkeys' = llmkeys \o
                  <<[req |-> [city |-> city, keywords |-> keywords, citylimit |-> citylimit],
                     key |-> PoiKey(city, keywords, citylimit)]>>
    /\ UNCHANGED <<lruVars, now, histVars, concVars, mlVars, cbVars, retry, redisVars, adm,
                   amap, lateVars>>

\* WeatherCache.get: a key is derived for (city, weather_type)
DeriveWeatherKey(city, weather_type) ==
    /\ Len(llmkeys) < 2
    /\ llmkeys' = llmkeys \o
                  <<[req |-> [city |-> city, weather_type |-> weather_type],
                     key |-> WeatherKey(city, weather_type)]>>
    /\ UNCHANGED <<lruVars, now, histVars, concVars, mlVars, cbVars, retry, redisVars, adm,
                   amap, lateVars>>

NextKeyFields ==
    \/ \E prompt \in Prompts, model \in ModelNames,
          temperature \in Temperatures, max_tokens \in MaxTokens :
           DeriveKey(prompt, model, temperature, max_tokens)
    \/ \E city \in FieldCities, keywords \in FieldKeywords, citylimit \in BOOLEAN :
           DerivePoiKey(city, keywords, citylimit)
    \/ \E city \in FieldCities, weather_type \in FieldWeatherTypes :
           DeriveWeatherKey(city, weather_type)

SpecKeyFields == InitBreakers /\ [][NextKeyFields]_vars

\* the key string of a request before hashing: llm_cache.py line 51, and the keys of
\* the POI and weather caches, which are not hashed
KeyString(req) ==
    IF "prompt" \in DOMAIN req
    THEN KeyData(req.prompt, req.model, req.temperature, req.max_tokens)
    ELSE IF "keywords" \in DOMAIN req
    THEN PoiKey(req.city, req.keywords, req.citylimit)
    ELSE WeatherKey(req.city, req.weather_type)

\* C37: two requests of the same domain whose fields differ have different key strings
C37_KeysInjective ==
    \A i \in DOMAIN llmkeys, j \in DOMAIN llmkeys :
        (DOMAIN llmkeys[i].req = DOMAIN llmkeys[j].req /\ llmkeys[i].req # llmkeys[j].req)
        => KeyString(llmkeys[i].req) # KeyString(llmkeys[j].req)

(***************************************************************************)
(* The delays of one retried call (SpecRetry): retry.slept[a] is the delay *)
(* slept after failed attempt a.  The policy of the call sites, in the     *)
(* terms of section 4.4: the first delay, the factor from one delay to the *)
(* next (the base of wait_exponential, left at its default) and the cap.   *)
(***************************************************************************)
WaitExpBase == 2         \* wait_exponential(...): exp_base, not passed
BaseDelay == WaitMultiplier
MaxDelay == WaitMax

Min2(a, b) == IF a < b THEN a ELSE b

\* min(baseDelay * multiplier^(a-1), maxDelay)
PolicyDelay(a) == Min2(BaseDelay * WaitExpBase ^ (a - 1), MaxDelay)

====
